---- MODULE Spec2Model ----
(***************************************************************************)
(* Newsletter subscription and contact-message handling of the Garoon Thai *)
(* site.  Text values are sequences of one-character strings, so that      *)
(* includes('@') and trim() are computed on the characters.                *)
(* The hosted backend is an external collaborator: every awaited insert    *)
(* resolves to one of "ok" (row stored), "error" (the client returns       *)
(* {error}, e.g. an RLS rejection) or "throw" (the awaited promise         *)
(* rejects); a failed insert stores no row.                                *)
(***************************************************************************)
EXTENDS Integers, Sequences, FiniteSets, TLC

\* ---------------------------------------------------------------- bounds
MaxRemote == 2   \* rows the member_subscriptions table may hold in the model
MaxLocal == 3    \* entries the local fallback list may hold in the model
MaxTime == 1     \* last instant of the wall clock
MaxMessages == 2 \* rows the contact_messages table may hold in the model
MaxRows == 2     \* rows the table behind a CRUD view may hold in the model
MaxFetches == 2  \* remote calls a CRUD view may have in flight in the model

\* ---------------------------------------------------------------- text
EmptyStr == << >>

\* String.prototype.includes for a single character.
Includes(s, c) == \E i \in DOMAIN s : s[i] = c

\* Truthiness of a JavaScript string: the empty string is falsy.
Truthy(s) == Len(s) > 0

\* JavaScript white space, as far as the inputs of the model contain it.
IsSpace(c) == c = " "

\* String.prototype.trim, front then back.
RECURSIVE TrimStart(_)
TrimStart(s) ==
  IF Len(s) > 0 /\ IsSpace(Head(s)) THEN TrimStart(Tail(s)) ELSE s

RECURSIVE TrimEnd(_)
TrimEnd(s) ==
  IF Len(s) > 0 /\ IsSpace(s[Len(s)])
    THEN TrimEnd(SubSeq(s, 1, Len(s) - 1)) ELSE s

Trim(s) == TrimEnd(TrimStart(s))

\* parts.join(sep)
RECURSIVE Join(_, _)
Join(parts, sep) ==
  IF Len(parts) = 0 THEN EmptyStr
  ELSE IF Len(parts) = 1 THEN parts[1]
  ELSE parts[1] \o sep \o Join(Tail(parts), sep)

\* Values a visitor types into an email input.
EmailInputs ==
  { << >>, <<"a">>, <<"a", "@">>, <<"b", "@">> }

\* Values a visitor types into a name input (name, first name, last name).
NameInputs == { << >>, <<" ">>, <<"n">> }

\* Values a visitor types into the message and subject inputs.
MessageInputs == { << >>, <<"m">> }

SubjectInputs == { << >>, <<"s">> }

\* ---------------------------------------------------------------- toasts
NoToast == [title |-> "", description |-> "", variant |-> "none"]

ToastInvalidEmail ==
  [title |-> "Invalid Email",
   description |-> "Please enter a valid email address",
   variant |-> "destructive"]

ToastSubscribeFailed ==
  [title |-> "Error",
   description |-> "Failed to subscribe. Please try again later.",
   variant |-> "destructive"]

ToastSubscribed ==
  [title |-> "Success!",
   description |-> "Thank you for subscribing to our newsletter!",
   variant |-> "default"]

ToastStoredLocally ==
  [title |-> "Success!",
   description |-> "Thank you for subscribing to our newsletter! (Stored locally)",
   variant |-> "default"]

ToastAlreadySubscribed ==
  [title |-> "Already Subscribed",
   description |-> "This email is already subscribed to our newsletter",
   variant |-> "destructive"]

ToastMissingInformation ==
  [title |-> "Missing Information",
   description |-> "Please fill in all required fields",
   variant |-> "destructive"]

ToastSendFailed ==
  [title |-> "Error",
   description |-> "Failed to send message. Please try again later.",
   variant |-> "destructive"]

ToastMessageSent ==
  [title |-> "Message Sent Successfully!",
   description |-> "Your message has been sent and will be reviewed by our team. We'll get back to you soon!",
   variant |-> "default"]

ToastMessageSaved ==
  [title |-> "Message Saved",
   description |-> "Your message has been saved locally. Please contact us directly if urgent.",
   variant |-> "destructive"]

\* ---------------------------------------------------------------- state
VARIABLES
  member_subscriptions,      \* remote table: sequence of rows
  newsletter_subscriptions,  \* localStorage item 'newsletter_subscriptions'
  now,                       \* wall clock read by new Date()
  email,                     \* News: email input state, per page instance
  subscribing,               \* News: loading flag, per page instance
  subCall,                   \* News: the handleSubscribe call of a page
  toast,                     \* News: last notification raised by handleSubscribe
  contact_messages,          \* remote table: sequence of rows
  contactPage,               \* the mounted page that holds the contact form
  contactForm,               \* contact form state of the mounted page
  sendingMessage,            \* loading flag of the contact form
  contactCall,               \* the handleContactSubmit call of the page
  contactToast,              \* last notification raised by handleContactSubmit
  messages,                  \* Messages view: in-memory list
  isLoading,                 \* Messages view: loading flag
  messageToDelete,           \* Messages view: message of the open delete dialog
  loadCall,                  \* Messages view: the loadMessages call
  deleteCall,                \* Messages view: the deleteMessage call
  markCall,                  \* Messages view: the markAsRead call
  adminToast,                \* Messages view: last notification
  subscribers,               \* Newsletter view: in-memory list
  userSubscriptions,         \* Users view: subscriptions state
  exported,                  \* the document of the last export link clicked
  contact_info,              \* remote table: its single row, or Null
  footerContactInfo,         \* Footer: contactInfo state
  aboutContactInfo,          \* About: contactInfo state
  footerToast,               \* Footer: last notification
  footerLoading,             \* Footer: loading flag
  loadingContactInfo,        \* About: loading flag of the contact info
  crudView,                  \* CRUD view: which manager is mounted
  crudTable,                 \* remote table behind the mounted CRUD view
  crudList,                  \* CRUD view: in-memory list
  crudFetches,               \* CRUD view: list reads awaiting their result
  crudPrompt,                \* CRUD view: id of the open confirm(), or Null
  crudDeleting,              \* CRUD view: ids of deletes awaiting their result
  crudToast,                 \* CRUD view: last notification
  managerMounted,            \* ContactManager: whether it is mounted
  contactInfo,               \* ContactManager: contactInfo state
  managerFetches,            \* ContactManager: fetchContactInfo calls awaiting
  saveCall,                  \* ContactManager: the onSubmit call
  loading,                   \* ContactManager: loading flag
  managerToast,              \* ContactManager: last notification
  rpcCall,                   \* subscribe_newsletter: the call of each session
  subsLoading,               \* Newsletter view: loading flag
  subsDelete,                \* Newsletter view: the deleteSubscriber call
  subsToast,                 \* Newsletter view: last notification
  stats,                     \* Dashboard: stats state
  statsFetch,                \* Dashboard: the fetchStats call
  authUser,                  \* useAuth(): user, or Null
  authLoading,               \* useAuth(): loading
  routeOutput                \* what ProtectedRoute rendered last

subVars ==
  << member_subscriptions, newsletter_subscriptions, now,
     email, subscribing, subCall, toast >>

contactVars ==
  << contact_messages, contactPage, contactForm, sendingMessage,
     contactCall, contactToast >>

adminVars ==
  << messages, isLoading, messageToDelete, loadCall, deleteCall, markCall,
     adminToast >>

exportVars == << subscribers, userSubscriptions, exported >>

settingsVars ==
  << contact_info, footerContactInfo, footerLoading, footerToast,
     aboutContactInfo, loadingContactInfo >>

crudVars ==
  << crudView, crudTable, crudList, crudFetches, crudPrompt, crudDeleting,
     crudToast >>

managerVars ==
  << managerMounted, contactInfo, managerFetches, saveCall, loading,
     managerToast >>

listVars == << subsLoading, subsDelete, subsToast >>

dashVars == << stats, statsFetch >>

routeVars == << authUser, authLoading, routeOutput >>

officeVars ==
  << crudVars, managerVars, rpcCall, listVars, dashVars, routeVars >>

consoleVars == << adminVars, exportVars, settingsVars, officeVars >>

\* What subscribe_newsletter leaves alone, the table apart.
nonRpcVars ==
  << newsletter_subscriptions, now, email, subscribing, subCall, toast,
     contactVars, adminVars, exportVars, settingsVars, crudVars, managerVars,
     listVars, dashVars, routeVars >>

\* What the Newsletter view leaves alone, the table apart.
nonListVars ==
  << newsletter_subscriptions, now, email, subscribing, subCall, toast,
     contactVars, adminVars, userSubscriptions, exported, settingsVars,
     crudVars, managerVars, rpcCall, dashVars, routeVars >>

\* What the Dashboard leaves alone.
nonDashVars ==
  << subVars, contactVars, adminVars, exportVars, settingsVars, crudVars,
     managerVars, rpcCall, listVars, routeVars >>

\* What a render of ProtectedRoute leaves alone, its children apart.
nonRouteVars ==
  << subVars, contactVars, adminVars, exportVars, settingsVars, crudVars,
     managerVars, rpcCall, listVars >>

nonCrudVars ==
  << subVars, contactVars, adminVars, exportVars, settingsVars, managerVars,
     rpcCall, listVars, dashVars, routeVars >>

\* What the ContactManager leaves alone, the contact_info table apart.
nonManagerVars ==
  << subVars, contactVars, adminVars, exportVars, crudVars, rpcCall, listVars,
     dashVars, routeVars, footerContactInfo, footerLoading, footerToast,
     aboutContactInfo, loadingContactInfo >>

vars == << subVars, contactVars, consoleVars >>

\* Page instances (browser tabs) of the News page sharing one origin.
Pages == {"tab1", "tab2"}

\* The page instance the visitor uses in the single-session specification.
ActivePages == {"tab1"}

RemoteOutcomes == {"ok", "error", "throw"}

LocalOutcomes == {"ok", "throw"}

\* A localStorage item is << >> while its key was never set (getItem gives
\* null) and <<list>> once a list was stored under it.
Null == << >>

\* The item localStorage.setItem(key, JSON.stringify(list)) stores.
StoredItem(list) == << list >>

IdleCall ==
  [pc |-> "idle", email |-> EmptyStr, remote |-> "none", local |-> "none",
   remoteInserts |-> 0, localReads |-> 0, localWrites |-> 0, toasts |-> 0]

\* The record handleSubscribe inserts remotely or appends locally.
SubscriptionRow(e, t) ==
  [email |-> e, is_subscribed |-> TRUE, subscribed_at |-> t]

\* JSON.parse(localStorage.getItem('newsletter_subscriptions') || '[]')
ParseSubscriptions(item) == IF item = Null THEN << >> ELSE item[1]

\* Variant: the duplicate check never matches.
FindSubscription_Never(list, e) == FALSE

\* subscriptions.find(sub => sub.email === email)
FindSubscription(list, e) ==
  \E i \in DOMAIN list : list[i].email = e

\* What handleSubscribe can touch after its await, as one value.
World(p) ==
  [remote |-> member_subscriptions, item |-> newsletter_subscriptions,
   toast |-> toast[p], email |-> email[p], toasts |-> 0,
   localReads |-> 0, localWrites |-> 0]

\* Variant: the success path also appends to the local list.
InsertSucceeded_DualWrite(w, e, t) ==
  [w EXCEPT !.remote = Append(w.remote, SubscriptionRow(e, t)),
            !.item = StoredItem(Append(ParseSubscriptions(w.item),
                                       SubscriptionRow(e, t))),
            !.toast = ToastSubscribed, !.toasts = @ + 1,
            !.email = EmptyStr]

\* Variant: the input is not cleared after a successful insert.
InsertSucceeded_KeepsEmail(w, e, t) ==
  [w EXCEPT !.remote = Append(w.remote, SubscriptionRow(e, t)),
            !.toast = ToastSubscribed, !.toasts = @ + 1]

\* The insert resolved without error: success toast, setEmail("").
InsertSucceeded(w, e, t) ==
  [w EXCEPT !.remote = Append(w.remote, SubscriptionRow(e, t)),
            !.toast = ToastSubscribed, !.toasts = @ + 1,
            !.email = EmptyStr]

\* Variant: the new entry is pushed but the list is not written back.
LocalFallback_NoPersist(w, e, t, lo) ==
  IF lo = "throw"
    THEN [w EXCEPT !.toast = ToastSubscribeFailed, !.toasts = @ + 1]
    ELSE IF ~FindSubscription(ParseSubscriptions(w.item), e)
      THEN [w EXCEPT !.localReads = @ + 1,
                     !.toast = ToastStoredLocally, !.toasts = @ + 1,
                     !.email = EmptyStr]
      ELSE [w EXCEPT !.localReads = @ + 1,
                     !.toast = ToastAlreadySubscribed, !.toasts = @ + 1]

\* Variant: the list is written, and written again after a second push.
LocalFallback_Twice(w, e, t, lo) ==
  IF lo = "throw"
    THEN [w EXCEPT !.toast = ToastSubscribeFailed, !.toasts = @ + 1]
    ELSE LET subscriptions == ParseSubscriptions(w.item)
         IN IF ~FindSubscription(subscriptions, e)
              THEN [w EXCEPT
                      !.item = StoredItem(Append(Append(subscriptions,
                                 SubscriptionRow(e, t)), SubscriptionRow(e, t))),
                      !.localReads = @ + 1, !.localWrites = @ + 2,
                      !.toast = ToastStoredLocally, !.toasts = @ + 1,
                      !.email = EmptyStr]
              ELSE [w EXCEPT
                      !.localReads = @ + 1,
                      !.toast = ToastAlreadySubscribed, !.toasts = @ + 1]

\* Variant: the local success reuses the copy of the remote success.
LocalFallback_SameCopy(w, e, t, lo) ==
  IF lo = "throw"
    THEN [w EXCEPT !.toast = ToastSubscribeFailed, !.toasts = @ + 1]
    ELSE LET subscriptions == ParseSubscriptions(w.item)
         IN IF ~FindSubscription(subscriptions, e)
              THEN [w EXCEPT
                      !.item = StoredItem(Append(subscriptions,
                                                 SubscriptionRow(e, t))),
                      !.localReads = @ + 1, !.localWrites = @ + 1,
                      !.toast = ToastSubscribed, !.toasts = @ + 1,
                      !.email = EmptyStr]
              ELSE [w EXCEPT
                      !.localReads = @ + 1,
                      !.toast = ToastAlreadySubscribed, !.toasts = @ + 1]

\* Variant: the list written back holds the new entry only.
LocalFallback_Overwrite(w, e, t, lo) ==
  IF lo = "throw"
    THEN [w EXCEPT !.toast = ToastSubscribeFailed, !.toasts = @ + 1]
    ELSE LET subscriptions == ParseSubscriptions(w.item)
         IN IF ~FindSubscription(subscriptions, e)
              THEN [w EXCEPT
                      !.item = StoredItem(<< SubscriptionRow(e, t) >>),
                      !.localReads = @ + 1, !.localWrites = @ + 1,
                      !.toast = ToastStoredLocally, !.toasts = @ + 1,
                      !.email = EmptyStr]
              ELSE [w EXCEPT
                      !.localReads = @ + 1,
                      !.toast = ToastAlreadySubscribed, !.toasts = @ + 1]

\* Variant: the new entry is put in front of the list.
LocalFallback_Prepend(w, e, t, lo) ==
  IF lo = "throw"
    THEN [w EXCEPT !.toast = ToastSubscribeFailed, !.toasts = @ + 1]
    ELSE LET subscriptions == ParseSubscriptions(w.item)
         IN IF ~FindSubscription(subscriptions, e)
              THEN [w EXCEPT
                      !.item = StoredItem(<< SubscriptionRow(e, t) >>
                                            \o subscriptions),
                      !.localReads = @ + 1, !.localWrites = @ + 1,
                      !.toast = ToastStoredLocally, !.toasts = @ + 1,
                      !.email = EmptyStr]
              ELSE [w EXCEPT
                      !.localReads = @ + 1,
                      !.toast = ToastAlreadySubscribed, !.toasts = @ + 1]

\* The awaited insert threw: the catch block, the local fallback.  lo tells
\* whether the localStorage access of the block succeeds or throws.
LocalFallback(w, e, t, lo) ==
  IF lo = "throw"
    THEN [w EXCEPT !.toast = ToastSubscribeFailed, !.toasts = @ + 1]
    ELSE LET subscriptions == ParseSubscriptions(w.item)
         IN IF ~FindSubscription(subscriptions, e)
              THEN [w EXCEPT
                      !.item = StoredItem(Append(subscriptions,
                                                 SubscriptionRow(e, t))),
                      !.localReads = @ + 1, !.localWrites = @ + 1,
                      !.toast = ToastStoredLocally, !.toasts = @ + 1,
                      !.email = EmptyStr]
              ELSE [w EXCEPT
                      !.localReads = @ + 1,
                      !.toast = ToastAlreadySubscribed, !.toasts = @ + 1]

\* Variant: a returned error is handled like a thrown one.
InsertRejected_FallsBack(w, e, t) == LocalFallback(w, e, t, "ok")

\* The insert resolved with {error}: error toast and return.
InsertRejected(w, e, t) ==
  [w EXCEPT !.toast = ToastSubscribeFailed, !.toasts = @ + 1]

\* handleSubscribe from the resolution of the awaited insert to its end.
AfterInsert(w, e, t, ro, lo) ==
  CASE ro = "ok" -> InsertSucceeded(w, e, t)
    [] ro = "error" -> InsertRejected(w, e, t)
    [] ro = "throw" -> LocalFallback(w, e, t, lo)

\* ------------------------------------------------- contact form (News, About)
ContactPages == {"News", "About"}

\* useState initial value of contactForm in each page.
EmptyForm(page) ==
  IF page = "About"
    THEN [firstName |-> EmptyStr, lastName |-> EmptyStr, email |-> EmptyStr,
          subject |-> EmptyStr, message |-> EmptyStr]
    ELSE [name |-> EmptyStr, email |-> EmptyStr,
          subject |-> EmptyStr, message |-> EmptyStr]

\* Inputs bound to the fields of the form.
FieldInputs(field) ==
  CASE field \in {"name", "firstName", "lastName"} -> NameInputs
    [] field = "email" -> EmailInputs
    [] field = "subject" -> SubjectInputs
    [] field = "message" -> MessageInputs

\* The name a submission carries: News sends contactForm.name, About sends
\* `${firstName} ${lastName}`.trim().
ContactName(page, form) ==
  IF page = "About"
    THEN Trim(form.firstName \o <<" ">> \o form.lastName)
    ELSE form.name

\* Variant: the message is not required.
ContactComplete_NoMessage(page, form) ==
  /\ Truthy(ContactName(page, form))
  /\ Truthy(form.email)

\* First check of handleContactSubmit: all required fields are truthy.
ContactComplete(page, form) ==
  /\ Truthy(ContactName(page, form))
  /\ Truthy(form.email)
  /\ Truthy(form.message)

\* The row handleContactSubmit inserts into contact_messages.
ContactRow(page, form) ==
  [name |-> ContactName(page, form), email |-> form.email,
   message |-> form.message]

IdleContact ==
  [pc |-> "idle", row |-> [name |-> EmptyStr, email |-> EmptyStr,
                           message |-> EmptyStr],
   remote |-> "none", remoteInserts |-> 0, toasts |-> 0]

\* What handleContactSubmit can touch after its await, as one value.
ContactWorld ==
  [remote |-> contact_messages, item |-> newsletter_subscriptions,
   form |-> contactForm, toast |-> contactToast, toasts |-> 0]

\* handleContactSubmit from the resolution of the awaited insert to its end.
AfterContactInsert(w, page, row, ro) ==
  CASE ro = "ok" ->
         [w EXCEPT !.remote = Append(w.remote, row),
                   !.toast = ToastMessageSent, !.toasts = @ + 1,
                   !.form = EmptyForm(page)]
    [] ro = "error" ->
         [w EXCEPT !.toast = ToastSendFailed, !.toasts = @ + 1]
    [] ro = "throw" ->
         [w EXCEPT !.toast = ToastMessageSaved, !.toasts = @ + 1]

\* onChange of a contact form input.
SetContactField(field, s) ==
  /\ field \in DOMAIN contactForm
  /\ contactForm[field] # s
  /\ contactForm' = [contactForm EXCEPT ![field] = s]
  /\ UNCHANGED << consoleVars, subVars, contact_messages, contactPage, sendingMessage,
                  contactCall, contactToast >>

\* handleContactSubmit up to its await: the two validations,
\* setSendingMessage(true) and the remote insert request.  The submit button
\* is disabled while sendingMessage.
ContactStart ==
  /\ ~sendingMessage
  /\ contactCall.pc = "idle"
  /\ LET row == ContactRow(contactPage, contactForm)
     IN IF ~ContactComplete(contactPage, contactForm)
          THEN /\ contactToast' = ToastMissingInformation
               /\ contactCall' =
                    [IdleContact EXCEPT !.row = row, !.toasts = 1]
               /\ UNCHANGED sendingMessage
          ELSE IF ~Includes(contactForm.email, "@")
            THEN /\ contactToast' = ToastInvalidEmail
                 /\ contactCall' =
                      [IdleContact EXCEPT !.row = row, !.toasts = 1]
                 /\ UNCHANGED sendingMessage
            ELSE /\ sendingMessage' = TRUE
                 /\ contactCall' =
                      [IdleContact EXCEPT !.pc = "awaiting", !.row = row,
                                          !.remoteInserts = 1]
                 /\ UNCHANGED contactToast
  /\ UNCHANGED << consoleVars, subVars, contact_messages, contactPage, contactForm >>

\* Variant: sendingMessage is reset after the success path only.
ContactResume_NoFinally(ro) ==
  /\ contactCall.pc = "awaiting"
  /\ LET r == AfterContactInsert(ContactWorld, contactPage,
                                 contactCall.row, ro)
     IN /\ Len(r.remote) <= MaxMessages
        /\ contact_messages' = r.remote
        /\ newsletter_subscriptions' = r.item
        /\ contactForm' = r.form
        /\ contactToast' = r.toast
        /\ contactCall' = [contactCall EXCEPT !.pc = "idle", !.remote = ro,
                                              !.toasts = r.toasts]
  /\ sendingMessage' = (ro # "ok")
  /\ UNCHANGED << member_subscriptions, now, email, subscribing, subCall,
                  toast, contactPage, consoleVars >>

\* handleContactSubmit resumes when the awaited insert resolves with ro, runs
\* to its end and leaves through the finally block.
ContactResume(ro) ==
  /\ contactCall.pc = "awaiting"
  /\ LET r == AfterContactInsert(ContactWorld, contactPage,
                                 contactCall.row, ro)
     IN /\ Len(r.remote) <= MaxMessages
        /\ contact_messages' = r.remote
        /\ newsletter_subscriptions' = r.item
        /\ contactForm' = r.form
        /\ contactToast' = r.toast
        /\ contactCall' = [contactCall EXCEPT !.pc = "idle", !.remote = ro,
                                              !.toasts = r.toasts]
  /\ sendingMessage' = FALSE
  /\ UNCHANGED << member_subscriptions, now, email, subscribing, subCall,
                  toast, contactPage, consoleVars >>

\* ---------------------------------------------------------------- Messages view
\* Contact-form submissions live in member_subscriptions as rows that carry a
\* metadata bag (a function from key to value) next to the three columns of a
\* subscription row.
StatusRead == <<"r", "e", "a", "d">>

StatusPending == <<"p", "e", "n", "d", "i", "n", "g">>

Unknown == <<"U", "n", "k", "n", "o", "w", "n">>

DefaultSubject ==
  <<"C", "o", "n", "t", "a", "c", "t", " ", "F", "o", "r", "m", " ",
    "S", "u", "b", "m", "i", "s", "s", "i", "o", "n">>

\* Arguments a caller of submit_contact_form passes.
RpcEmails == { <<"a", "@">>, <<"b", "@">> }

RpcNames == { <<"n">> }

RpcSubjects == { <<"s">> }

RpcMessages == { <<"m">> }

\* The note another session attaches to a submission.
Notes == { <<"x">> }

\* {...bag, [k]: v}
SetKey(bag, k, v) == (k :> v) @@ bag

\* bag?.[k], with undefined read as the empty (falsy) text.
GetKey(bag, k) == IF k \in DOMAIN bag THEN bag[k] ELSE EmptyStr

\* a || b
Or(a, b) == IF Truthy(a) THEN a ELSE b

ContactFormRow(e, t, bag) ==
  [email |-> e, is_subscribed |-> FALSE, subscribed_at |-> t, metadata |-> bag]

\* metadata->>type = 'contact_form'
IsContactForm(row) ==
  /\ "metadata" \in DOMAIN row
  /\ "type" \in DOMAIN row.metadata
  /\ row.metadata["type"] = "contact_form"

\* The filter deleteMessage and markAsRead put on their requests for message m.
MatchesMessage(row, m) ==
  /\ row.email = m.email
  /\ IsContactForm(row)
  /\ row.subscribed_at = m.timestamp

sanitizeInput(input) ==
  IF ~Truthy(input) THEN EmptyStr
  ELSE Trim(SelectSeq(input, LAMBDA c : c \notin {"<", ">"}))

\* The in-memory message loadMessages builds from a row.
ToMessage(row) ==
  [name |-> Or(sanitizeInput(GetKey(row.metadata, "name")), Unknown),
   email |-> sanitizeInput(row.email),
   subject |-> Or(sanitizeInput(GetKey(row.metadata, "subject")),
                  DefaultSubject),
   message |-> Or(sanitizeInput(GetKey(row.metadata, "message")), EmptyStr),
   timestamp |-> row.subscribed_at,
   status |-> Or(GetKey(row.metadata, "status"), StatusPending)]

\* Indices of the rows the loadMessages query selects.
Selected(tbl) ==
  { i \in DOMAIN tbl : tbl[i].is_subscribed = FALSE /\ IsContactForm(tbl[i]) }

\* The orders in which the query may return them: subscribed_at descending,
\* rows of one instant in any order.
QueryOrders(tbl) ==
  { s \in [1..Cardinality(Selected(tbl)) -> Selected(tbl)] :
      /\ \A j, k \in DOMAIN s : j # k => s[j] # s[k]
      /\ \A j, k \in DOMAIN s :
           j < k => tbl[s[j]].subscribed_at >= tbl[s[k]].subscribed_at }

AdminError(description) ==
  [title |-> "Error", description |-> description, variant |-> "destructive"]

AdminSuccess(description) ==
  [title |-> "Success", description |-> description, variant |-> "default"]

\* handleError: a thrown Error shows its own message, a returned error object
\* shows the default message.
handleError(ro, defaultMessage) ==
  AdminError(IF ro = "throw" THEN "error.message" ELSE defaultMessage)

IdleDelete ==
  [pc |-> "idle", message |-> Null, messages |-> << >>, remote |-> "none"]

IdleMark ==
  [pc |-> "idle", message |-> Null, messages |-> << >>, metadata |-> Null,
   remote |-> "none", stale |-> FALSE]

InitMessages ==
  /\ messages = << >>
  /\ isLoading = FALSE
  /\ messageToDelete = Null
  /\ loadCall = "idle"
  /\ deleteCall = IdleDelete
  /\ markCall = IdleMark
  /\ adminToast = NoToast

\* submit_contact_form: one contact-form row stamped with NOW().
SubmitContactForm(n, e, s, m) ==
  /\ Len(member_subscriptions) < MaxRemote
  /\ member_subscriptions' =
       Append(member_subscriptions,
              ContactFormRow(e, now,
                [type |-> "contact_form", name |-> n, subject |-> s,
                 message |-> m]))
  /\ UNCHANGED << newsletter_subscriptions, now, email, subscribing, subCall,
                  toast, contactVars, consoleVars >>

\* Another authenticated session updates the metadata of row i: it attaches
\* a note.
OtherSessionUpdate(i, note) ==
  /\ i \in DOMAIN member_subscriptions
  /\ IsContactForm(member_subscriptions[i])
  /\ "note" \notin DOMAIN member_subscriptions[i].metadata
  /\ member_subscriptions' =
       [member_subscriptions EXCEPT
          ![i].metadata = SetKey(@, "note", note)]
  /\ UNCHANGED << newsletter_subscriptions, now, email, subscribing, subCall,
                  toast, contactVars, consoleVars >>

\* loadMessages up to its await (on mount, and on Refresh).
LoadStart ==
  /\ loadCall = "idle"
  /\ messageToDelete = Null
  /\ loadCall' = "awaiting"
  /\ isLoading' = TRUE
  /\ UNCHANGED << officeVars, subVars, contactVars, messages, messageToDelete, deleteCall,
                  markCall, adminToast, exportVars, settingsVars >>

\* loadMessages resumes with the outcome ro of the select; order is the order
\* in which the rows came back.
LoadResume(ro, order) ==
  /\ loadCall = "awaiting"
  /\ order \in QueryOrders(member_subscriptions)
  /\ CASE ro = "ok" ->
            /\ messages' =
                 [k \in DOMAIN order |->
                    ToMessage(member_subscriptions[order[k]])]
            /\ UNCHANGED adminToast
       [] ro = "error" ->
            /\ messages' = << >>
            /\ adminToast' =
                 handleError(ro, "Failed to load contact messages")
       [] ro = "throw" ->
            /\ adminToast' =
                 handleError(ro, "Failed to load contact messages")
            /\ UNCHANGED messages
  /\ isLoading' = FALSE
  /\ loadCall' = "idle"
  /\ UNCHANGED << officeVars, subVars, contactVars, messageToDelete, deleteCall, markCall,
                  exportVars, settingsVars >>

\* The table of messages is rendered, and no dialog covers it.
TableShown == ~isLoading /\ messageToDelete = Null

\* Click on the trash button of row i: setMessageToDelete(message).
OpenDeleteDialog(i) ==
  /\ TableShown
  /\ i \in DOMAIN messages
  /\ messageToDelete' = StoredItem(messages[i])
  /\ UNCHANGED << officeVars, subVars, contactVars, messages, isLoading, loadCall,
                  deleteCall, markCall, adminToast, exportVars, settingsVars >>

\* Cancel in the dialog: onOpenChange.
CancelDelete ==
  /\ messageToDelete # Null
  /\ messageToDelete' = Null
  /\ UNCHANGED << officeVars, subVars, contactVars, messages, isLoading, loadCall,
                  deleteCall, markCall, adminToast, exportVars, settingsVars >>

\* A message both handlers accept: email and timestamp are truthy (a
\* timestamp is a non-empty text in the program).
ValidMessage(m) == Truthy(m.email)

\* Delete in the dialog: deleteMessage(messageToDelete) up to its await; the
\* dialog closes.
DeleteStart ==
  /\ messageToDelete # Null
  /\ deleteCall.pc = "idle"
  /\ LET m == messageToDelete[1]
     IN IF ~ValidMessage(m)
        THEN /\ adminToast' = AdminError("Invalid message data")
             /\ isLoading' = FALSE
             /\ UNCHANGED deleteCall
        ELSE /\ deleteCall' =
                  [IdleDelete EXCEPT !.pc = "awaiting",
                                     !.message = messageToDelete,
                                     !.messages = messages]
             /\ isLoading' = TRUE
             /\ UNCHANGED adminToast
  /\ messageToDelete' = Null
  /\ UNCHANGED << officeVars, subVars, contactVars, messages, loadCall, markCall,
                  exportVars, settingsVars >>

\* The rows a delete for m leaves in the table.
DeleteRows(tbl, m) == SelectSeq(tbl, LAMBDA row : ~MatchesMessage(row, m))

\* messages.filter(msg => msg.email !== m.email || msg.timestamp !== m.timestamp)
FilterMessages(list, m) ==
  SelectSeq(list, LAMBDA msg : msg.email # m.email \/ msg.timestamp # m.timestamp)

\* Variant: the message is dropped from the list whatever the outcome.
DeleteResume_Optimistic(ro) ==
  /\ deleteCall.pc = "awaiting"
  /\ LET m == deleteCall.message[1]
     IN CASE ro = "ok" ->
               /\ member_subscriptions' = DeleteRows(member_subscriptions, m)
               /\ messages' = FilterMessages(deleteCall.messages, m)
               /\ adminToast' = AdminSuccess("Message deleted successfully")
          [] OTHER ->
               /\ adminToast' = handleError(ro, "Failed to delete message")
               /\ messages' = FilterMessages(deleteCall.messages, m)
               /\ UNCHANGED member_subscriptions
  /\ deleteCall' = [IdleDelete EXCEPT !.remote = ro]
  /\ isLoading' = FALSE
  /\ messageToDelete' = Null
  /\ UNCHANGED << newsletter_subscriptions, now, email, subscribing, subCall,
                  toast, contactVars, loadCall, markCall, exportVars,
                  settingsVars, officeVars >>

\* deleteMessage resumes with the outcome ro of the delete and leaves through
\* its finally block.  messages is the list of the render that started it.
DeleteResume(ro) ==
  /\ deleteCall.pc = "awaiting"
  /\ LET m == deleteCall.message[1]
     IN CASE ro = "ok" ->
               /\ member_subscriptions' = DeleteRows(member_subscriptions, m)
               /\ messages' = FilterMessages(deleteCall.messages, m)
               /\ adminToast' = AdminSuccess("Message deleted successfully")
          [] OTHER ->
               /\ adminToast' = handleError(ro, "Failed to delete message")
               /\ UNCHANGED << member_subscriptions, messages >>
  /\ deleteCall' = [IdleDelete EXCEPT !.remote = ro]
  /\ isLoading' = FALSE
  /\ messageToDelete' = Null
  /\ UNCHANGED << newsletter_subscriptions, now, email, subscribing, subCall,
                  toast, contactVars, loadCall, markCall, exportVars,
                  settingsVars, officeVars >>

\* Click on the mark-as-read button of row i (shown while its status is not
\* 'read'): markAsRead(message) up to its first await.
MarkStart(i) ==
  /\ TableShown
  /\ i \in DOMAIN messages
  /\ messages[i].status # StatusRead
  /\ markCall.pc = "idle"
  /\ IF ~ValidMessage(messages[i])
     THEN /\ adminToast' = AdminError("Invalid message data")
          /\ isLoading' = FALSE
          /\ UNCHANGED markCall
     ELSE /\ markCall' =
               [IdleMark EXCEPT !.pc = "fetching",
                                !.message = StoredItem(messages[i]),
                                !.messages = messages]
          /\ isLoading' = TRUE
          /\ UNCHANGED adminToast
  /\ UNCHANGED << officeVars, subVars, contactVars, messages, messageToDelete, loadCall,
                  deleteCall, exportVars, settingsVars >>

\* Indices of the rows a request filtered for m addresses.
Addressed(tbl, m) == { i \in DOMAIN tbl : MatchesMessage(tbl[i], m) }

\* markAsRead resumes with the outcome ro of select('metadata').single(): a
\* request that succeeds returns the bag when exactly one row is addressed
\* and an error otherwise.
MarkFetched(ro) ==
  /\ markCall.pc = "fetching"
  /\ LET m == markCall.message[1]
         rows == Addressed(member_subscriptions, m)
     IN IF ro = "ok" /\ Cardinality(rows) = 1
        THEN /\ markCall' =
                  [markCall EXCEPT
                     !.pc = "updating",
                     !.metadata = StoredItem(
                        member_subscriptions[CHOOSE i \in rows : TRUE].metadata)]
             /\ UNCHANGED << adminToast, isLoading >>
        ELSE /\ adminToast' =
                  handleError(ro, "Failed to fetch message record")
             /\ markCall' =
                  [IdleMark EXCEPT !.remote =
                                     IF ro = "ok" THEN "error" ELSE ro]
             /\ isLoading' = FALSE
  /\ UNCHANGED << officeVars, subVars, contactVars, messages, messageToDelete, loadCall,
                  deleteCall, exportVars, settingsVars >>

\* Variant: the bag written back holds the type and the status only.
UpdatedMetadata_StatusOnly(existing) ==
  [type |-> "contact_form", status |-> StatusRead]

\* updatedMetadata: { ...existingRecord.metadata, status: 'read' }
UpdatedMetadata(existing) == SetKey(existing, "status", StatusRead)

\* Variant: the status is merged into the bag stored at the time of the write.
UpdateRows_Merge(tbl, m, bag) ==
  [i \in DOMAIN tbl |->
     IF MatchesMessage(tbl[i], m)
     THEN [tbl[i] EXCEPT !.metadata = SetKey(@, "status", bag["status"])]
     ELSE tbl[i]]

\* update({ metadata: bag }) filtered for m.
UpdateRows(tbl, m, bag) ==
  [i \in DOMAIN tbl |->
     IF MatchesMessage(tbl[i], m)
     THEN [tbl[i] EXCEPT !.metadata = bag]
     ELSE tbl[i]]

\* messages.map(msg => same email and timestamp ? {...msg, status:'read'} : msg)
MarkMessages(list, m) ==
  [k \in DOMAIN list |->
     IF list[k].email = m.email /\ list[k].timestamp = m.timestamp
     THEN [list[k] EXCEPT !.status = StatusRead]
     ELSE list[k]]

\* markAsRead resumes with the outcome ro of the update and leaves through its
\* finally block.
MarkUpdated(ro) ==
  /\ markCall.pc = "updating"
  /\ LET m == markCall.message[1]
         bag == UpdatedMetadata(markCall.metadata[1])
     IN CASE ro = "ok" ->
               /\ member_subscriptions' =
                    UpdateRows(member_subscriptions, m, bag)
               /\ messages' = MarkMessages(markCall.messages, m)
               /\ adminToast' = AdminSuccess("Message marked as read")
               /\ markCall' =
                    [IdleMark EXCEPT
                       !.remote = ro,
                       !.stale =
                         \E i \in Addressed(member_subscriptions, m) :
                           member_subscriptions[i].metadata
                             # markCall.metadata[1]]
          [] OTHER ->
               /\ adminToast' =
                    handleError(ro, "Failed to update message status")
               /\ markCall' = [IdleMark EXCEPT !.remote = ro]
               /\ UNCHANGED << member_subscriptions, messages >>
  /\ isLoading' = FALSE
  /\ UNCHANGED << newsletter_subscriptions, now, email, subscribing, subCall,
                  toast, contactVars, messageToDelete, loadCall, deleteCall,
                  exportVars, settingsVars, officeVars >>

\* ---------------------------------------------------------------- contact info
\* business_hours and social_links are Json columns.  A JSON text is a
\* sequence of tokens: the punctuation "{", "}", ":", ",", the literals
\* "null" and "5", and the string literals of JsonStrings.
JsonKeys == <<"mon", "tue">>

JsonStrings == {"mon", "tue", "9-5"}

JsonScalars == JsonStrings \cup {"null", "5"}

\* The values a Json column, and a JavaScript variable read from it, holds.
JsNull == [kind |-> "null", text |-> << >>, fields |-> << >>]

JsNumber(token) == [kind |-> "number", text |-> << token >>, fields |-> << >>]

JsString(text) == [kind |-> "string", text |-> text, fields |-> << >>]

JsObject(fields) == [kind |-> "object", text |-> << >>, fields |-> fields]

EmptyObject == JsObject(<< >>)

\* The structures an admin saves: hours per day.
Structures ==
  UNION { [days -> {"9-5"}] : days \in SUBSET {"mon", "tue"} }

\* JSON.stringify of a structure, keys in insertion order.
JsonStringify(o) ==
  LET keys == SelectSeq(JsonKeys, LAMBDA k : k \in DOMAIN o)
  IN <<"{">> \o Join([i \in DOMAIN keys |-> << keys[i], ":", o[keys[i]] >>],
                     <<",">>)
            \o <<"}">>

Failed == [ok |-> FALSE, value |-> JsNull]

Parsed(value) == [ok |-> TRUE, value |-> value]

\* The members between the braces of an object: key ":" scalar, separated by
\* ","; a repeated key keeps its last value.
RECURSIVE ParseMembers(_)
ParseMembers(tokens) ==
  IF Len(tokens) < 3 THEN Failed
  ELSE IF ~(tokens[1] \in JsonStrings /\ tokens[2] = ":"
              /\ tokens[3] \in JsonScalars) THEN Failed
  ELSE IF Len(tokens) = 3
    THEN Parsed(JsObject(tokens[1] :> tokens[3]))
  ELSE IF tokens[4] # "," THEN Failed
  ELSE LET rest == ParseMembers(SubSeq(tokens, 5, Len(tokens)))
       IN IF ~rest.ok THEN Failed
          ELSE Parsed(JsObject(rest.value.fields @@ (tokens[1] :> tokens[3])))

\* JSON.parse: ok is FALSE where it throws a SyntaxError.
JsonParse(tokens) ==
  IF Len(tokens) = 0 THEN Failed
  ELSE IF Len(tokens) = 1
    THEN CASE tokens[1] = "null" -> Parsed(JsNull)
           [] tokens[1] = "5" -> Parsed(JsNumber("5"))
           [] tokens[1] \in JsonStrings -> Parsed(JsString(tokens))
           [] OTHER -> Failed
  ELSE IF tokens[1] # "{" \/ tokens[Len(tokens)] # "}" THEN Failed
  ELSE IF Len(tokens) = 2 THEN Parsed(EmptyObject)
  ELSE ParseMembers(SubSeq(tokens, 2, Len(tokens) - 1))

\* Texts that are not JSON.
BrokenTexts ==
  { << >>, <<"{">>, <<"{", "mon", ":">>, <<"mon", ":", "9-5">>,
    <<"{", "mon", "9-5", "}">>, <<"{", "mon", ":", "9-5", ",", "}">> }

\* What a writer stores in a column: null, a number, a structure, or a text
\* (the JSON text of a structure, of null, or a text that is not JSON).
SavedStructures == { o \in Structures : DOMAIN o \in {{}, {"mon", "tue"}} }

StoredTexts ==
  { JsonStringify(o) : o \in SavedStructures }
    \cup { <<"null">>, << >>, <<"{", "mon", ":">> }

StoredValues ==
  { JsNull, JsNumber("5") } \cup { JsObject(o) : o \in SavedStructures }
    \cup { JsString(t) : t \in StoredTexts }

\* !!value
JsTruthy(v) ==
  CASE v.kind = "null" -> FALSE
    [] v.kind = "string" -> Len(v.text) > 0
    [] OTHER -> TRUE

\* Variant: a text that does not parse is passed on as null.
ParseOrEmpty_Null(text) ==
  IF JsonParse(text).ok THEN JsonParse(text).value ELSE JsNull

\* try { JSON.parse(text) } catch { {} }
ParseOrEmpty(text) ==
  IF JsonParse(text).ok THEN JsonParse(text).value ELSE EmptyObject

\* Footer: "Ensure business_hours is always an object".
FooterDecode(v) ==
  IF ~JsTruthy(v) \/ v.kind = "string"
    THEN IF v.kind = "string" THEN ParseOrEmpty(v.text)
         ELSE IF JsTruthy(v) THEN v ELSE EmptyObject
    ELSE v

\* About: parse a string, then business_hours || {}.
AboutDecode(v) ==
  LET parsed == IF v.kind = "string" THEN ParseOrEmpty(v.text) ELSE v
  IN IF JsTruthy(parsed) THEN parsed ELSE EmptyObject

ToastContactInfoUnavailable ==
  [title |-> "Contact Info Unavailable",
   description |-> "Unable to load contact or business hours information from the database.",
   variant |-> "destructive"]

\* About: the contact info it holds before and without a row.
AboutDefault == [business_hours |-> EmptyObject]

InitSettings ==
  /\ contact_info = Null
  /\ footerContactInfo = Null
  /\ footerLoading = TRUE
  /\ footerToast = NoToast
  /\ aboutContactInfo = AboutDefault
  /\ loadingContactInfo = TRUE

\* A writer of the contact_info row (the admin form, or SQL) stores values.
StoreContactInfo(hours, links) ==
  /\ contact_info # StoredItem([business_hours |-> hours, social_links |-> links])
  /\ contact_info' =
       StoredItem([business_hours |-> hours, social_links |-> links])
  /\ UNCHANGED << officeVars, subVars, contactVars, adminVars, exportVars,
                  footerContactInfo, footerLoading, footerToast,
                  aboutContactInfo, loadingContactInfo >>

\* Footer mounts (again): state as constructed, fetch pending.
MountFooter ==
  /\ ~footerLoading
  /\ footerContactInfo' = Null
  /\ footerLoading' = TRUE
  /\ UNCHANGED << officeVars, subVars, contactVars, adminVars, exportVars, contact_info,
                  footerToast, aboutContactInfo, loadingContactInfo >>

\* Footer: fetchContactInfo resumes with the outcome ro of maybeSingle().
FooterFetched(ro) ==
  /\ footerLoading
  /\ IF ro = "ok" /\ Len(contact_info) = 1
       THEN /\ footerContactInfo' =
                 StoredItem(
                   [business_hours |->
                      FooterDecode(contact_info[1].business_hours),
                    social_links |->
                      FooterDecode(contact_info[1].social_links)])
            /\ UNCHANGED footerToast
       ELSE /\ footerContactInfo' = Null
            /\ footerToast' = ToastContactInfoUnavailable
  /\ footerLoading' = FALSE
  /\ UNCHANGED << officeVars, subVars, contactVars, adminVars, exportVars, contact_info,
                  aboutContactInfo, loadingContactInfo >>

\* About mounts (again).
MountAbout ==
  /\ ~loadingContactInfo
  /\ aboutContactInfo' = AboutDefault
  /\ loadingContactInfo' = TRUE
  /\ UNCHANGED << officeVars, subVars, contactVars, adminVars, exportVars, contact_info,
                  footerContactInfo, footerLoading, footerToast >>

\* About: fetchContactInfo resumes with the outcome ro of maybeSingle().
AboutFetched(ro) ==
  /\ loadingContactInfo
  /\ aboutContactInfo' =
       IF ro = "ok" /\ Len(contact_info) = 1
         THEN [business_hours |-> AboutDecode(contact_info[1].business_hours)]
         ELSE AboutDefault
  /\ loadingContactInfo' = FALSE
  /\ UNCHANGED << officeVars, subVars, contactVars, adminVars, exportVars, contact_info,
                  footerContactInfo, footerLoading, footerToast >>

\* ---------------------------------------------------------------------
\* Flat CRUD views of the admin console: MenuManager (menu_items),
\* CategoryManager (menu_categories), ArticleManager (articles).
\* One view is mounted at a time; crudTable is the remote table behind it.
\* ---------------------------------------------------------------------

Views == {"menu", "category", "article"}

\* Values of the designated sort column (name, display_order, created_at).
RankInputs == {1, 2}

CrudRow(i, r) == [id |-> i, rank |-> r]

CrudIds == 1..MaxRows

\* .order(column) is ascending; articles are read newest first.
Ascending(view) == view # "article"

DeleteFailedText(view) ==
  CASE view = "menu" -> "Failed to delete menu item"
    [] view = "category" -> "Failed to delete category"
    [] view = "article" -> "Failed to delete article"

DeleteSucceededText(view) ==
  CASE view = "menu" -> "Menu item deleted successfully"
    [] view = "category" -> "Category deleted successfully"
    [] view = "article" -> "Article deleted successfully"

FetchFailedText(view) ==
  CASE view = "menu" -> "Failed to fetch menu items"
    [] view = "category" -> "Failed to fetch categories"
    [] view = "article" -> "Failed to fetch articles"

CrudError(description) ==
  [title |-> "Error", description |-> description, variant |-> "destructive"]

CrudSuccess(description) ==
  [title |-> "Success", description |-> description, variant |-> "default"]

\* The results select('*').order(column) can return for the table tbl.
CrudOrders(view, tbl) ==
  { s \in [1..Cardinality(tbl) -> tbl] :
      /\ \A i, j \in DOMAIN s : i # j => s[i] # s[j]
      /\ \A i, j \in DOMAIN s :
           i < j => IF Ascending(view) THEN s[i].rank <= s[j].rank
                                       ELSE s[i].rank >= s[j].rank }

ListedIds == { crudList[i].id : i \in DOMAIN crudList }

\* No manager is mounted yet.
InitCrud ==
  /\ crudView = "none"
  /\ crudTable = {}
  /\ crudList = << >>
  /\ crudFetches = 0
  /\ crudPrompt = Null
  /\ crudDeleting = {}
  /\ crudToast = NoToast

\* The admin opens a manager: useEffect starts the first read of its list.
MountView(view) ==
  /\ crudView = "none"
  /\ crudView' = view
  /\ crudFetches' = 1
  /\ UNCHANGED << nonCrudVars, crudTable, crudList, crudPrompt, crudDeleting,
                  crudToast >>

\* Another session's form submit inserts a row (onSubmit, insert branch).
CrudInsert(i, r) ==
  /\ crudView # "none"
  /\ \A row \in crudTable : row.id # i
  /\ crudTable' = crudTable \cup {CrudRow(i, r)}
  /\ UNCHANGED << nonCrudVars, crudView, crudList, crudFetches, crudPrompt,
                  crudDeleting, crudToast >>

\* fetchArticles / fetchCategories / fetchMenuItems resume with the outcome ro
\* of the select; the page runs no callback while confirm() is open.
FetchResolved(ro, order) ==
  /\ crudFetches > 0
  /\ crudPrompt = Null
  /\ order \in CrudOrders(crudView, crudTable)
  /\ crudFetches' = crudFetches - 1
  /\ IF ro = "ok"
       THEN crudList' = order /\ UNCHANGED crudToast
       ELSE /\ crudToast' = CrudError(FetchFailedText(crudView))
            /\ UNCHANGED crudList
  /\ UNCHANGED << nonCrudVars, crudView, crudTable, crudPrompt, crudDeleting >>

\* handleDelete(id), from the trash button of a listed row: confirm() opens.
handleDelete(id) ==
  /\ crudPrompt = Null
  /\ id \in ListedIds
  /\ id \notin crudDeleting
  /\ crudFetches + Cardinality(crudDeleting) < MaxFetches
  /\ crudPrompt' = StoredItem(id)
  /\ UNCHANGED << nonCrudVars, crudView, crudTable, crudList, crudFetches,
                  crudDeleting, crudToast >>

\* confirm() returns answer; on TRUE the delete .eq('id', id) is sent.
ConfirmAnswered(answer) ==
  /\ crudPrompt # Null
  /\ crudPrompt' = Null
  /\ crudDeleting' = IF answer THEN crudDeleting \cup {crudPrompt[1]}
                               ELSE crudDeleting
  /\ UNCHANGED << nonCrudVars, crudView, crudTable, crudList, crudFetches, crudToast >>

\* handleDelete resumes with the outcome ro of the remote delete.
DeleteResolved_NoRefresh(id, ro) ==
  /\ id \in crudDeleting
  /\ crudPrompt = Null
  /\ crudDeleting' = crudDeleting \ {id}
  /\ IF ro = "ok"
       THEN /\ crudTable' = { row \in crudTable : row.id # id }
            /\ crudToast' = CrudSuccess(DeleteSucceededText(crudView))
            /\ crudFetches' = crudFetches
       ELSE /\ crudToast' = CrudError(DeleteFailedText(crudView))
            /\ UNCHANGED << crudTable, crudFetches >>
  /\ UNCHANGED << nonCrudVars, crudView, crudList, crudPrompt >>

DeleteResolved(id, ro) ==
  /\ id \in crudDeleting
  /\ crudPrompt = Null
  /\ crudDeleting' = crudDeleting \ {id}
  /\ IF ro = "ok"
       THEN /\ crudTable' = { row \in crudTable : row.id # id }
            /\ crudToast' = CrudSuccess(DeleteSucceededText(crudView))
            /\ crudFetches' = crudFetches + 1
       ELSE /\ crudToast' = CrudError(DeleteFailedText(crudView))
            /\ UNCHANGED << crudTable, crudFetches >>
  /\ UNCHANGED << nonCrudVars, crudView, crudList, crudPrompt >>

\* ---------------------------------------------------------------------
\* ContactManager: the admin form of the contact_info row.  (SEOManager is
\* the same code over seo_settings.)
\* ---------------------------------------------------------------------

\* What the admin may have in the business_hours field when submitting.
FormTexts == { << >>, JsonStringify([d \in {"mon"} |-> "9-5"]), <<"{", "mon">> }

\* onSubmit: parse the field; a text that is not JSON is kept as { text }.
BusinessHours(text) ==
  IF ~Truthy(text) THEN EmptyObject
  ELSE IF JsonParse(text).ok THEN JsonParse(text).value
  ELSE JsObject([k \in {"text"} |-> text])

InfoRow(i, hours) == [id |-> i, business_hours |-> hours, social_links |-> JsNull]

IdleSave == [pc |-> "idle", branch |-> "none", id |-> 0, hours |-> JsNull]

ManagerError(description) ==
  [title |-> "Error", description |-> description, variant |-> "destructive"]

ManagerSuccess(description) ==
  [title |-> "Success", description |-> description, variant |-> "default"]

InitManager ==
  /\ managerMounted = FALSE
  /\ contactInfo = Null
  /\ managerFetches = 0
  /\ saveCall = IdleSave
  /\ loading = FALSE
  /\ managerToast = NoToast

\* The admin opens the Contact tab: useEffect calls fetchContactInfo.
MountManager ==
  /\ ~managerMounted
  /\ managerMounted' = TRUE
  /\ managerFetches' = 1
  /\ UNCHANGED << nonManagerVars, contact_info, contactInfo, saveCall, loading,
                  managerToast >>

\* fetchContactInfo resumes with the outcome ro of maybeSingle(), which
\* fails on more than one row and gives no data on none.
ManagerFetched(ro) ==
  /\ managerFetches > 0
  /\ managerFetches' = managerFetches - 1
  /\ IF ro # "ok" \/ Len(contact_info) > 1
       THEN /\ managerToast' =
                 ManagerError("Failed to fetch contact information")
            /\ UNCHANGED contactInfo
       ELSE /\ contactInfo' = IF Len(contact_info) = 1
                                THEN StoredItem(contact_info[1])
                                ELSE contactInfo
            /\ UNCHANGED managerToast
  /\ UNCHANGED << nonManagerVars, contact_info, managerMounted, saveCall,
                  loading >>

\* onSubmit(data) up to its remote call: update by id when a row is held,
\* insert otherwise.
onSubmit(text) ==
  /\ managerMounted
  /\ ~loading
  /\ managerFetches < MaxFetches
  /\ contactInfo = Null => Len(contact_info) < MaxRows
  /\ loading' = TRUE
  /\ saveCall' =
       IF contactInfo # Null
         THEN [pc |-> "awaiting", branch |-> "update", id |-> contactInfo[1].id,
               hours |-> BusinessHours(text)]
         ELSE [pc |-> "awaiting", branch |-> "insert", id |-> 0,
               hours |-> BusinessHours(text)]
  /\ UNCHANGED << nonManagerVars, contact_info, managerMounted, contactInfo,
                  managerFetches, managerToast >>

UpdateInfo(tbl, id, hours) ==
  [i \in DOMAIN tbl |->
     IF "id" \in DOMAIN tbl[i] /\ tbl[i].id = id
       THEN [tbl[i] EXCEPT !.business_hours = hours]
       ELSE tbl[i]]

\* onSubmit resumes with the outcome ro of its update or insert.
SaveResolved(ro) ==
  /\ saveCall.pc = "awaiting"
  /\ IF ro = "ok"
       THEN /\ contact_info' =
                 IF saveCall.branch = "update"
                   THEN UpdateInfo(contact_info, saveCall.id, saveCall.hours)
                   ELSE Append(contact_info,
                               InfoRow(Len(contact_info) + 1, saveCall.hours))
            /\ managerToast' =
                 ManagerSuccess("Contact information updated successfully")
            /\ managerFetches' = managerFetches + 1
       ELSE /\ managerToast' =
                 ManagerError("Failed to save contact information")
            /\ UNCHANGED << contact_info, managerFetches >>
  /\ saveCall' = IdleSave
  /\ loading' = FALSE
  /\ UNCHANGED << nonManagerVars, managerMounted, contactInfo >>

\* ---------------------------------------------------------------------
\* The database function subscribe_newsletter(email_address), called by
\* database sessions; each statement of its body sees the rows committed
\* when the statement starts.
\* ---------------------------------------------------------------------

Sessions == {"s1", "s2"}

IdleRpc ==
  [pc |-> "idle", email_address |-> EmptyStr, existing_subscription |-> Null,
   result |-> Null]

\* SELECT * INTO existing_subscription ... WHERE email = email_address
SelectByEmail(tbl, e) ==
  IF \E i \in DOMAIN tbl : tbl[i].email = e
    THEN StoredItem(tbl[CHOOSE i \in DOMAIN tbl : tbl[i].email = e])
    ELSE Null

RpcResult(success, message) == [success |-> success, message |-> message]

InitRpc == rpcCall = [s \in Sessions |-> IdleRpc]

\* Session s calls the function.
RpcCall(s, e) ==
  /\ rpcCall[s].pc = "idle"
  /\ rpcCall' = [rpcCall EXCEPT ![s] =
       [IdleRpc EXCEPT !.pc = "called", !.email_address = e]]
  /\ UNCHANGED << member_subscriptions, nonRpcVars >>

\* The first statement: the existence check.
RpcSelect(s) ==
  /\ rpcCall[s].pc = "called"
  /\ rpcCall' = [rpcCall EXCEPT ![s] =
       [@ EXCEPT !.pc = "checked",
                 !.existing_subscription =
                    SelectByEmail(member_subscriptions,
                                  rpcCall[s].email_address)]]
  /\ UNCHANGED << member_subscriptions, nonRpcVars >>

\* The IF statement and RETURN; io is the outcome of the INSERT (an error is
\* caught by WHEN OTHERS).
RpcFinish(s, io) ==
  /\ rpcCall[s].pc = "checked"
  /\ IF rpcCall[s].existing_subscription # Null
       THEN /\ rpcCall' = [rpcCall EXCEPT ![s] =
                 [IdleRpc EXCEPT !.result =
                    StoredItem(RpcResult(FALSE, "Email already subscribed"))]]
            /\ UNCHANGED member_subscriptions
       ELSE IF io = "ok"
         THEN /\ Len(member_subscriptions) < MaxRemote
              /\ member_subscriptions' =
                   Append(member_subscriptions,
                          SubscriptionRow(rpcCall[s].email_address, now))
              /\ rpcCall' = [rpcCall EXCEPT ![s] =
                   [IdleRpc EXCEPT !.result =
                      StoredItem(RpcResult(TRUE, "Successfully subscribed"))]]
         ELSE /\ rpcCall' = [rpcCall EXCEPT ![s] =
                   [IdleRpc EXCEPT !.result =
                      StoredItem(RpcResult(FALSE, "Error: SQLERRM"))]]
              /\ UNCHANGED member_subscriptions
  /\ UNCHANGED nonRpcVars

\* ---------------------------------------------------------------------
\* NewsletterSubscriberManager: the Newsletter view of the admin console.
\* ---------------------------------------------------------------------

IdleRemove == [pc |-> "idle", subscriber |-> Null, subscribers |-> << >>]

ListError(description) ==
  [title |-> "Error", description |-> description, variant |-> "destructive"]

ToastSubscriberRemoved ==
  [title |-> "Subscriber Removed",
   description |-> "Newsletter subscriber has been removed successfully",
   variant |-> "default"]

InitList ==
  /\ subsLoading = FALSE
  /\ subsDelete = IdleRemove
  /\ subsToast = NoToast

\* Indices of the rows .eq('is_subscribed', true) selects.
SubscribedRows(tbl) == { i \in DOMAIN tbl : tbl[i].is_subscribed = TRUE }

\* The orders in which the query may return them: subscribed_at descending.
SubscriberOrders(tbl) ==
  { s \in [1..Cardinality(SubscribedRows(tbl)) -> SubscribedRows(tbl)] :
      /\ \A j, k \in DOMAIN s : j # k => s[j] # s[k]
      /\ \A j, k \in DOMAIN s :
           j < k => tbl[s[j]].subscribed_at >= tbl[s[k]].subscribed_at }

\* loadSubscribers up to its await (on mount, and on Refresh, which is
\* disabled while loading).
loadSubscribers ==
  /\ ~subsLoading
  /\ subsLoading' = TRUE
  /\ UNCHANGED << member_subscriptions, subscribers, subsDelete, subsToast,
                  nonListVars >>

\* loadSubscribers resumes with the outcome ro of the select.
SubscribersLoaded(ro, order) ==
  /\ subsLoading
  /\ order \in SubscriberOrders(member_subscriptions)
  /\ IF ro = "ok"
       THEN /\ subscribers' =
                 [k \in DOMAIN order |-> member_subscriptions[order[k]]]
            /\ UNCHANGED subsToast
       ELSE /\ subscribers' = << >>
            /\ subsToast' = ListError("Failed to load newsletter subscribers")
  /\ subsLoading' = FALSE
  /\ UNCHANGED << member_subscriptions, subsDelete, nonListVars >>

\* deleteSubscriber(subscriber), from the trash button of row i, up to its
\* await.
deleteSubscriber(i) ==
  /\ ~subsLoading
  /\ i \in DOMAIN subscribers
  /\ subsDelete.pc = "idle"
  /\ subsDelete' = [pc |-> "awaiting", subscriber |-> StoredItem(subscribers[i]),
                    subscribers |-> subscribers]
  /\ UNCHANGED << member_subscriptions, subscribers, subsLoading, subsToast,
                  nonListVars >>

\* delete().eq('email', e)
DeleteByEmail(tbl, e) == SelectSeq(tbl, LAMBDA row : row.email # e)

\* deleteSubscriber resumes with the outcome ro of the delete; subscribers is
\* the list of the render that started it.
SubscriberRemoved(ro) ==
  /\ subsDelete.pc = "awaiting"
  /\ LET e == subsDelete.subscriber[1].email
     IN CASE ro = "ok" ->
               /\ member_subscriptions' = DeleteByEmail(member_subscriptions, e)
               /\ subscribers' =
                    SelectSeq(subsDelete.subscribers,
                              LAMBDA sub : sub.email # e)
               /\ subsToast' = ToastSubscriberRemoved
          [] ro = "error" ->
               /\ subsToast' =
                    ListError("Failed to remove subscriber from database")
               /\ UNCHANGED << member_subscriptions, subscribers >>
          [] ro = "throw" ->
               /\ subsToast' = ListError("Failed to remove subscriber")
               /\ UNCHANGED << member_subscriptions, subscribers >>
  /\ subsDelete' = IdleRemove
  /\ UNCHANGED << subsLoading, nonListVars >>

\* ---------------------------------------------------------------------
\* Dashboard: the overview figures.  menu_items, articles and profiles hold
\* no rows here.
\* ---------------------------------------------------------------------

NoStats == [menuItems |-> 0, articles |-> 0, subscribers |-> 0, profiles |-> 0]

IdleStats == [pc |-> "idle", remote |-> "none"]

InitDash ==
  /\ stats = NoStats
  /\ statsFetch = IdleStats

\* subscribers.filter(sub => sub.is_subscribed).length over the local list.
activeSubscribers ==
  Len(SelectSeq(ParseSubscriptions(newsletter_subscriptions),
                LAMBDA sub : sub.is_subscribed))

\* updateStats: setStats(prev => ({...prev, subscribers: activeSubscribers}))
updateStats == [stats EXCEPT !.subscribers = activeSubscribers]

\* The Dashboard mounts: updateStats runs at once, the interval is set, and
\* fetchStats runs up to its await.
MountDashboard ==
  /\ statsFetch.pc = "idle"
  /\ stats' = updateStats
  /\ statsFetch' = [pc |-> "awaiting", remote |-> "none"]
  /\ UNCHANGED nonDashVars

\* The interval fires: updateStats.
IntervalFired ==
  /\ statsFetch.pc # "idle"
  /\ stats' = updateStats
  /\ UNCHANGED << statsFetch, nonDashVars >>

\* count || 0 of a head select with the outcome ro.
CountOrZero(tbl, ro) == IF ro = "ok" THEN Len(tbl) ELSE 0

\* fetchStats resumes with the outcome ro of its selects; only a thrown error
\* reaches the catch block.
StatsFetched(ro) ==
  /\ statsFetch.pc = "awaiting"
  /\ stats' = IF ro = "throw" THEN stats
              ELSE [NoStats EXCEPT
                      !.subscribers = CountOrZero(member_subscriptions, ro)]
  /\ statsFetch' = [pc |-> "done", remote |-> ro]
  /\ UNCHANGED nonDashVars

\* ---------------------------------------------------------------------
\* ProtectedRoute around the Dashboard.  useAuth() belongs to the auth
\* provider: its user and loading values change as the provider decides.
\* ---------------------------------------------------------------------

Users == {"admin", "member"}

\* Variant: the loading check is skipped.
ProtectedRoute_NoLoadingCheck(user, pending) ==
  IF user = Null THEN "redirect:/auth" ELSE "children"

\* What ProtectedRoute returns for the values of useAuth().
ProtectedRoute(user, pending) ==
  IF pending THEN "spinner"
  ELSE IF user = Null THEN "redirect:/auth"
  ELSE "children"

InitRoute ==
  /\ authUser = Null
  /\ authLoading = TRUE
  /\ routeOutput = ProtectedRoute(Null, TRUE)

\* The auth provider changes user or loading; ProtectedRoute renders again,
\* and a Dashboard that is no longer rendered is unmounted.
AuthChanged(user, pending) ==
  /\ << user, pending >> # << authUser, authLoading >>
  /\ authUser' = user
  /\ authLoading' = pending
  /\ routeOutput' = ProtectedRoute(user, pending)
  /\ IF routeOutput' = "children"
       THEN UNCHANGED dashVars
       ELSE stats' = NoStats /\ statsFetch' = IdleStats
  /\ UNCHANGED nonRouteVars

\* The other views and the settings, before anything is loaded.
InitExports ==
  /\ subscribers = << >>
  /\ userSubscriptions = << >>
  /\ exported = Null

InitOffice == InitCrud /\ InitManager /\ InitRpc /\ InitList
              /\ InitDash /\ InitRoute

InitConsole == InitMessages /\ InitExports /\ InitSettings /\ InitOffice

InitContactForm ==
  /\ contact_messages = << >>
  /\ contactPage \in ContactPages
  /\ contactForm = EmptyForm(contactPage)
  /\ sendingMessage = FALSE
  /\ contactCall = IdleContact
  /\ contactToast = NoToast

Init ==
  /\ contact_messages = << >>
  /\ contactPage = "News"
  /\ contactForm = EmptyForm("News")
  /\ sendingMessage = FALSE
  /\ contactCall = IdleContact
  /\ contactToast = NoToast
  /\ member_subscriptions = << >>
  /\ newsletter_subscriptions = Null
  /\ now = 0
  /\ email = [p \in Pages |-> EmptyStr]
  /\ subscribing = [p \in Pages |-> FALSE]
  /\ subCall = [p \in Pages |-> IdleCall]
  /\ toast = [p \in Pages |-> NoToast]
  /\ InitConsole

\* The wall clock advances.
Tick ==
  /\ now < MaxTime
  /\ now' = now + 1
  /\ UNCHANGED << member_subscriptions, newsletter_subscriptions,
                  email, subscribing, subCall, toast, contactVars, consoleVars >>

\* onChange of the email input: setEmail(e.target.value).
SetEmail(p, s) ==
  /\ email[p] # s
  /\ email' = [email EXCEPT ![p] = s]
  /\ UNCHANGED << member_subscriptions, newsletter_subscriptions, now,
                  subscribing, subCall, toast, contactVars, consoleVars >>

\* Variant: the '@' check is dropped.
SubscribeValid_NoAtCheck(e) == Truthy(e)

\* The validation at the head of handleSubscribe.
SubscribeValid(e) == Truthy(e) /\ Includes(e, "@")

\* handleSubscribe up to its await: validation, setSubscribing(true) and the
\* remote insert request.  The submit button is disabled while subscribing.
SubscribeStart(p) ==
  /\ ~subscribing[p]
  /\ subCall[p].pc = "idle"
  /\ IF ~SubscribeValid(email[p])
       THEN /\ toast' = [toast EXCEPT ![p] = ToastInvalidEmail]
            /\ subCall' = [subCall EXCEPT ![p] =
                 [IdleCall EXCEPT !.email = email[p], !.toasts = 1]]
            /\ UNCHANGED subscribing
       ELSE /\ subscribing' = [subscribing EXCEPT ![p] = TRUE]
            /\ subCall' = [subCall EXCEPT ![p] =
                 [IdleCall EXCEPT !.pc = "awaiting", !.email = email[p],
                                  !.remoteInserts = 1]]
            /\ UNCHANGED toast
  /\ UNCHANGED << member_subscriptions, newsletter_subscriptions, now, email,
                  contactVars, consoleVars >>

\* handleSubscribe resumes when the awaited insert resolves with ro, runs to
\* its end and leaves through the finally block.
SubscribeResume(p, ro, lo) ==
  /\ subCall[p].pc = "awaiting"
  /\ LET r == AfterInsert(World(p), subCall[p].email, now, ro, lo)
     IN /\ Len(r.remote) <= MaxRemote
        /\ Len(ParseSubscriptions(r.item)) <= MaxLocal
        /\ member_subscriptions' = r.remote
        /\ newsletter_subscriptions' = r.item
        /\ toast' = [toast EXCEPT ![p] = r.toast]
        /\ email' = [email EXCEPT ![p] = r.email]
        /\ subCall' = [subCall EXCEPT ![p] =
             [@ EXCEPT !.pc = "idle", !.remote = ro,
                       !.local = IF ro = "throw" THEN lo ELSE "none",
                       !.localReads = r.localReads,
                       !.localWrites = r.localWrites,
                       !.toasts = r.toasts]]
  /\ subscribing' = [subscribing EXCEPT ![p] = FALSE]
  /\ UNCHANGED << now, contactVars, consoleVars >>

Next ==
  \/ Tick
  \/ \E p \in ActivePages, s \in EmailInputs : SetEmail(p, s)
  \/ \E p \in ActivePages : SubscribeStart(p)
  \/ \E p \in ActivePages, ro \in RemoteOutcomes, lo \in LocalOutcomes :
       SubscribeResume(p, ro, lo)

Spec == Init /\ [][Next]_vars

\* The contact form of the mounted page (News or About), on its own.
InitContact ==
  /\ member_subscriptions = << >>
  /\ newsletter_subscriptions = Null
  /\ now = 0
  /\ email = [p \in Pages |-> EmptyStr]
  /\ subscribing = [p \in Pages |-> FALSE]
  /\ subCall = [p \in Pages |-> IdleCall]
  /\ toast = [p \in Pages |-> NoToast]
  /\ InitContactForm
  /\ InitConsole

NextContact ==
  \/ \E field \in {"name", "firstName", "lastName", "email", "subject",
                   "message"} :
       \E s \in FieldInputs(field) : SetContactField(field, s)
  \/ ContactStart
  \/ \E ro \in RemoteOutcomes : ContactResume(ro)

SpecContact == InitContact /\ [][NextContact]_vars

\* The site as a visitor has it open: one route is mounted at a time.  News
\* renders the newsletter form (its contact form is commented out of the
\* markup), About renders the contact form.
NextForms ==
  \/ contactPage = "News" /\ Next
  \/ contactPage = "About" /\ NextContact

SpecForms == InitContact /\ [][NextForms]_vars

\* ---------------------------------------------------------------- CSV export
\* The document an export link carries is csvContent without its
\* "data:text/csv;charset=utf-8," prefix; the href is encodeURI of it.
Digits == <<"0", "1", "2", "3", "4", "5", "6", "7", "8", "9">>

\* The text of a timestamp, and the date text toLocaleDateString makes of it.
TimeText(t) == << Digits[t + 1] >>

LocaleDate(t) == <<"d">> \o TimeText(t)

MessagesHeader ==
  <<"N", "a", "m", "e", ",", "E", "m", "a", "i", "l", ",", "S", "u", "b",
    "j", "e", "c", "t", ",", "M", "e", "s", "s", "a", "g", "e", ",", "T",
    "i", "m", "e", "s", "t", "a", "m", "p", ",", "S", "t", "a", "t", "u",
    "s", "\n">>

SubscribersHeader ==
  <<"E", "m", "a", "i", "l", ",", "S", "u", "b", "s", "c", "r", "i", "p",
    "t", "i", "o", "n", " ", "S", "t", "a", "t", "u", "s", ",", "S", "u",
    "b", "s", "c", "r", "i", "b", "e", "d", " ", "D", "a", "t", "e", "\n">>

SubscriptionsHeader ==
  <<"E", "m", "a", "i", "l", ",", "S", "u", "b", "s", "c", "r", "i", "b",
    "e", "d", ",", "D", "a", "t", "e", "\n">>

Subscribed ==
  <<"S", "u", "b", "s", "c", "r", "i", "b", "e", "d">>

Unsubscribed ==
  <<"U", "n", "s", "u", "b", "s", "c", "r", "i", "b", "e", "d">>

Yes == <<"Y", "e", "s">>

No == <<"N", "o">>

\* Variant: a double quote inside the field is doubled.
CsvField_Escaped(s) ==
  <<"\"">> \o Join([k \in DOMAIN s |->
                      IF s[k] = "\"" THEN <<"\"", "\"">> ELSE << s[k] >>],
                   EmptyStr)
           \o <<"\"">>

\* `"${field}"`
CsvField(s) == <<"\"">> \o s \o <<"\"">>

MessageLine(msg) ==
  Join(<< CsvField(msg.name), CsvField(msg.email), CsvField(msg.subject),
          CsvField(msg.message), CsvField(TimeText(msg.timestamp)),
          CsvField(msg.status) >>, <<",">>)

SubscriberLine(sub) ==
  Join(<< CsvField(sub.email),
          CsvField(IF sub.is_subscribed THEN Subscribed ELSE Unsubscribed),
          CsvField(TimeText(sub.subscribed_at)) >>, <<",">>)

SubscriptionLine(sub) ==
  Join(<< sub.email, IF sub.is_subscribed THEN Yes ELSE No,
          LocaleDate(sub.subscribed_at) >>, <<",">>)

MessagesCsv(list) ==
  MessagesHeader \o Join([k \in DOMAIN list |-> MessageLine(list[k])], <<"\n">>)

SubscribersCsv(list) ==
  SubscribersHeader
    \o Join([k \in DOMAIN list |-> SubscriberLine(list[k])], <<"\n">>)

SubscriptionsCsv(list) ==
  SubscriptionsHeader
    \o Join([k \in DOMAIN list |-> SubscriptionLine(list[k])], <<"\n">>)

Export(download, csv, title) ==
  StoredItem([download |-> download, csv |-> csv, toast |-> title])

\* Variant: the document is built from a fresh read of the table.
exportMessages_FreshRead ==
  /\ exported' =
       Export("contact_messages.csv",
              MessagesCsv([k \in DOMAIN member_subscriptions |->
                             ToMessage(member_subscriptions[k])]),
              "Export Successful")
  /\ UNCHANGED << officeVars, subVars, contactVars, adminVars, subscribers,
                  userSubscriptions, settingsVars >>

\* Messages view, Export CSV.
exportMessages ==
  /\ exported' =
       Export("contact_messages.csv", MessagesCsv(messages),
              "Export Successful")
  /\ UNCHANGED << officeVars, subVars, contactVars, adminVars, subscribers,
                  userSubscriptions, settingsVars >>

\* Newsletter view, Export CSV.
exportSubscribers ==
  /\ exported' =
       Export("newsletter_subscribers.csv", SubscribersCsv(subscribers),
              "Export Successful")
  /\ UNCHANGED << officeVars, subVars, contactVars, adminVars, subscribers,
                  userSubscriptions, settingsVars >>

\* Users view, Export.
exportSubscriptions ==
  /\ exported' =
       Export("newsletter_subscriptions.csv",
              SubscriptionsCsv(userSubscriptions), "none")
  /\ UNCHANGED << officeVars, subVars, contactVars, adminVars, subscribers,
                  userSubscriptions, settingsVars >>

\* Field texts a loaded record may hold.
ExportNames == { <<"n">>, <<",">> }

ExportEmails == { <<"a", "@">> }

ExportBodies == { <<"m">>, <<"\"">> }

\* Lists of at most MaxRemote records over a set of records.
ListsOf(records) ==
  UNION { [1..n -> records] : n \in 0..MaxRemote }

LoadedMessages ==
  ListsOf([name : ExportNames, email : ExportEmails, subject : RpcSubjects,
           message : ExportBodies, timestamp : 0..MaxTime,
           status : {StatusPending, StatusRead}])

LoadedSubscribers ==
  ListsOf([email : ExportNames \cup ExportEmails, is_subscribed : {TRUE},
           subscribed_at : 0..MaxTime])

LoadedSubscriptions ==
  ListsOf([email : ExportNames \cup ExportEmails, is_subscribed : BOOLEAN,
           subscribed_at : 0..MaxTime])

\* One of the three views is open with a list it loaded earlier.
InitExport ==
  /\ InitContactForm
  /\ member_subscriptions = << >>
  /\ newsletter_subscriptions = Null
  /\ now = 0
  /\ email = [p \in Pages |-> EmptyStr]
  /\ subscribing = [p \in Pages |-> FALSE]
  /\ subCall = [p \in Pages |-> IdleCall]
  /\ toast = [p \in Pages |-> NoToast]
  /\ contactPage = "News"
  /\ isLoading = FALSE
  /\ messageToDelete = Null
  /\ loadCall = "idle"
  /\ deleteCall = IdleDelete
  /\ markCall = IdleMark
  /\ adminToast = NoToast
  /\ exported = Null
  /\ InitSettings
  /\ InitOffice
  /\ \/ /\ messages \in LoadedMessages
        /\ subscribers = << >>
        /\ userSubscriptions = << >>
     \/ /\ messages = << >>
        /\ subscribers \in LoadedSubscribers
        /\ userSubscriptions = << >>
     \/ /\ messages = << >>
        /\ subscribers = << >>
        /\ userSubscriptions \in LoadedSubscriptions

\* The exports of the three views, while visitors keep submitting.
NextExport ==
  \/ \E n \in RpcNames, e \in RpcEmails, s \in RpcSubjects, m \in RpcMessages :
       SubmitContactForm(n, e, s, m)
  \/ exportMessages
  \/ exportSubscribers
  \/ exportSubscriptions

SpecExport == InitExport /\ [][NextExport]_vars

\* Two handleSubscribe calls in flight at once over one local list: both page
\* instances run.  The catch block has no await between getItem and setItem,
\* so a resumed call runs its fallback to the end before the other resumes.
NextTabs ==
  \/ \E p \in Pages, s \in EmailInputs : SetEmail(p, s)
  \/ \E p \in Pages : SubscribeStart(p)
  \/ \E p \in Pages, ro \in RemoteOutcomes, lo \in LocalOutcomes :
       SubscribeResume(p, ro, lo)

\* A pending insert resolves in the end; nothing obliges a visitor to type
\* or to click.
SpecTabs ==
  /\ Init
  /\ [][NextTabs]_vars
  /\ \A p \in Pages :
       WF_vars(\E ro \in RemoteOutcomes, lo \in LocalOutcomes :
                 SubscribeResume(p, ro, lo))

\* The Messages view of one admin session while visitors submit through
\* submit_contact_form: loading, and deleting through the dialog.
NextDelete ==
  \/ Tick
  \/ \E n \in RpcNames, e \in RpcEmails, s \in RpcSubjects, m \in RpcMessages :
       SubmitContactForm(n, e, s, m)
  \/ LoadStart
  \/ \E ro \in RemoteOutcomes, order \in QueryOrders(member_subscriptions) :
       LoadResume(ro, order)
  \/ \E i \in DOMAIN messages : OpenDeleteDialog(i)
  \/ CancelDelete
  \/ DeleteStart
  \/ \E ro \in RemoteOutcomes : DeleteResume(ro)

SpecDelete == Init /\ [][NextDelete]_vars

\* The Messages view of one admin session while another session edits the
\* same rows: loading, and marking as read, within one instant of the clock.
NextMark ==
  \/ \E n \in RpcNames, e \in RpcEmails, s \in RpcSubjects, m \in RpcMessages :
       SubmitContactForm(n, e, s, m)
  \/ \E i \in DOMAIN member_subscriptions, note \in Notes :
       OtherSessionUpdate(i, note)
  \/ LoadStart
  \/ \E ro \in RemoteOutcomes, order \in QueryOrders(member_subscriptions) :
       LoadResume(ro, order)
  \/ \E i \in DOMAIN messages : MarkStart(i)
  \/ \E ro \in RemoteOutcomes : MarkFetched(ro)
  \/ \E ro \in RemoteOutcomes : MarkUpdated(ro)

SpecMark == Init /\ [][NextMark]_vars

\* The contact info of the site: a writer stores the row, Footer and About
\* fetch and decode it on every mount.
NextSettings ==
  \/ \E hours \in StoredValues, links \in StoredValues :
       StoreContactInfo(hours, links)
  \/ MountFooter
  \/ \E ro \in RemoteOutcomes : FooterFetched(ro)
  \/ MountAbout
  \/ \E ro \in RemoteOutcomes : AboutFetched(ro)

SpecSettings == Init /\ [][NextSettings]_vars

\* A visitor fills in the required fields of the contact form of About and
\* submits; the admin's Messages view loads while no submission is pending,
\* so that every row stored before a load begins is stored when it ends.
InitInbox == InitContact /\ contactPage = "About"

NextInbox ==
  \/ /\ loadCall = "idle"
     /\ \/ \E field \in {"firstName", "email", "message"} :
             \E s \in FieldInputs(field) :
               Truthy(Trim(s)) /\ SetContactField(field, s)
        \/ ContactStart
        \/ \E ro \in RemoteOutcomes : ContactResume(ro)
  \/ /\ contactCall.pc = "idle"
     /\ \/ LoadStart
        \/ \E ro \in RemoteOutcomes,
              order \in QueryOrders(member_subscriptions) :
               LoadResume(ro, order)

SpecInbox == InitInbox /\ [][NextInbox]_vars

\* ================================================================ properties
\* Indices of the records of list that are subscribed records of e.
SubscribedIn(list, e) ==
  { i \in DOMAIN list : list[i].email = e /\ list[i].is_subscribed = TRUE }

RemoteCount(tbl, e) == Cardinality(SubscribedIn(tbl, e))

LocalCount(item, e) == Cardinality(SubscribedIn(ParseSubscriptions(item), e))

\* Steps in which a handleSubscribe call of p begins, and in which it ends
\* after its await.
SubscribeBegan(p) == subCall[p].pc = "idle" /\ subCall'[p] # subCall[p]

SubscribeFinished(p) == subCall[p].pc = "awaiting" /\ subCall'[p].pc = "idle"

ContactBegan == contactCall.pc = "idle" /\ contactCall' # contactCall

ContactFinished == contactCall.pc = "awaiting" /\ contactCall'.pc = "idle"

HasAt(e) == \E i \in 1..Len(e) : e[i] = "@"

C4_RemoteSuccessFrame ==
  [][\A p \in Pages :
       (SubscribeFinished(p) /\ subCall'[p].remote = "ok")
       => /\ member_subscriptions' =
               Append(member_subscriptions,
                      [email |-> subCall[p].email, is_subscribed |-> TRUE,
                       subscribed_at |-> now])
          /\ newsletter_subscriptions' = newsletter_subscriptions
          /\ subCall'[p].localReads = 0
          /\ subCall'[p].localWrites = 0
          /\ subCall'[p].toasts = 1
          /\ toast'[p] = ToastSubscribed
          /\ email'[p] = EmptyStr]_vars

C4_Witness ==
  \E p \in Pages :
    /\ subCall[p].pc = "idle"
    /\ subCall[p].remote = "ok"
    /\ toast[p] = ToastSubscribed
    /\ email[p] = EmptyStr
    /\ RemoteCount(member_subscriptions, subCall[p].email) = 1
    /\ newsletter_subscriptions = Null

\* C5 (as claimed): after any sequence of subscribe calls each email has at
\* most one subscribed record, remote rows and local entries taken together.
C5_Original ==
  \A e \in EmailInputs :
    RemoteCount(member_subscriptions, e)
      + LocalCount(newsletter_subscriptions, e) <= 1

\* C6: a subscribe call whose email is empty or has no '@' raises 'Invalid
\* Email' and does nothing else: no insert is attempted, neither store is
\* written, the input and the subscribing flag stay as they are; a call that
\* awaits an insert always carries an email with an '@'.
C6_InvalidEmailRejected ==
  /\ [](\A p \in Pages :
          (subCall[p].pc = "awaiting" \/ subCall[p].remoteInserts > 0)
            => (Len(subCall[p].email) > 0 /\ HasAt(subCall[p].email)))
  /\ [][\A p \in Pages :
          (SubscribeBegan(p) /\ (Len(email[p]) = 0 \/ ~HasAt(email[p])))
          => /\ toast'[p] = ToastInvalidEmail
             /\ subCall'[p].pc = "idle"
             /\ subCall'[p].remoteInserts = 0
             /\ subCall'[p].localWrites = 0
             /\ member_subscriptions' = member_subscriptions
             /\ newsletter_subscriptions' = newsletter_subscriptions
             /\ email' = email
             /\ subscribing' = subscribing
             /\ subscribing[p] = FALSE]_vars

C6_Witness ==
  \E p \in Pages :
    /\ subCall[p].pc = "idle"
    /\ subCall[p].toasts = 1
    /\ subCall[p].remoteInserts = 0
    /\ Len(subCall[p].email) > 0
    /\ ~HasAt(subCall[p].email)
    /\ toast[p] = ToastInvalidEmail
    /\ ~subscribing[p]

C10_SingleAttempts ==
  /\ [](\A p \in Pages :
          /\ subCall[p].remoteInserts <= 1
          /\ subCall[p].localWrites <= 1
          /\ subCall[p].localReads <= 1
          /\ subCall[p].pc = "awaiting"
               => /\ subCall[p].remoteInserts = 1
                  /\ subCall[p].localReads = 0
                  /\ subCall[p].localWrites = 0
          /\ subCall[p].localWrites = 1
               => /\ subCall[p].pc = "idle"
                  /\ subCall[p].remote = "throw"
                  /\ subCall[p].remoteInserts = 1)
  /\ [][/\ newsletter_subscriptions' # newsletter_subscriptions
             => /\ \E p \in Pages :
                     SubscribeFinished(p) /\ subCall'[p].remote = "throw"
                /\ member_subscriptions' = member_subscriptions
                /\ Len(ParseSubscriptions(newsletter_subscriptions')) =
                     Len(ParseSubscriptions(newsletter_subscriptions)) + 1
        /\ member_subscriptions' # member_subscriptions
             => /\ \E p \in Pages :
                     SubscribeFinished(p) /\ subCall'[p].remote = "ok"
                /\ newsletter_subscriptions' = newsletter_subscriptions
                /\ Len(member_subscriptions') =
                     Len(member_subscriptions) + 1]_vars

C10_Witness ==
  \E p \in Pages :
    /\ subCall[p].pc = "idle"
    /\ subCall[p].remoteInserts = 1
    /\ subCall[p].localWrites = 1
    /\ subCall[p].remote = "throw"
    /\ member_subscriptions = << >>

\* The name of the pending submission is blank: News sends the name field as
\* typed, About joins first and last name and trims, which leaves nothing
\* exactly when both consist of white space only.
NameBlank ==
  IF contactPage = "About"
    THEN /\ \A i \in 1..Len(contactForm.firstName) :
              contactForm.firstName[i] = " "
         /\ \A i \in 1..Len(contactForm.lastName) :
              contactForm.lastName[i] = " "
    ELSE Len(contactForm.name) = 0

\* C7: a contact submission whose name, email or message is empty, or whose
\* email has no '@', attempts no remote write, raises a validation error
\* ('Missing Information', else 'Invalid Email') and leaves the form fields
\* and the sendingMessage flag as they are; a submission that awaits an
\* insert carries a non-empty name, email and message and an '@'.
C7_ContactValidation ==
  /\ [](contactCall.pc = "awaiting"
          => /\ Len(contactCall.row.name) > 0
             /\ Len(contactCall.row.message) > 0
             /\ HasAt(contactCall.row.email))
  /\ [][ContactBegan =>
          LET missing == \/ NameBlank
                         \/ Len(contactForm.email) = 0
                         \/ Len(contactForm.message) = 0
          IN (missing \/ ~HasAt(contactForm.email))
               => /\ contactToast' = IF missing THEN ToastMissingInformation
                                                ELSE ToastInvalidEmail
                  /\ contactCall'.pc = "idle"
                  /\ contactCall'.remoteInserts = 0
                  /\ contact_messages' = contact_messages
                  /\ contactForm' = contactForm
                  /\ sendingMessage' = sendingMessage
                  /\ sendingMessage = FALSE]_vars

C7_Witness ==
  /\ contactPage = "About"
  /\ contactCall.pc = "idle"
  /\ contactCall.toasts = 1
  /\ contactCall.remoteInserts = 0
  /\ contactToast = ToastMissingInformation
  /\ contactForm.firstName = <<" ">>
  /\ contactForm.lastName = << >>
  /\ HasAt(contactForm.email)
  /\ Len(contactForm.message) > 0

\* Titles of the notifications that tell the visitor the message was sent
\* or saved.
SentOrSavedTitles == {"Message Sent Successfully!", "Message Saved"}

\* C8 (as claimed): when the remote insert of a contact message fails, by a
\* returned error or by throwing, the handler raises a failure notification
\* that does not state the message was sent or saved, writes nothing to
\* local storage and keeps the form fields.
C8_Original ==
  [][(ContactFinished /\ contactCall'.remote \in {"error", "throw"})
       => /\ contactToast'.variant = "destructive"
          /\ contactToast'.title \notin SentOrSavedTitles
          /\ newsletter_subscriptions' = newsletter_subscriptions
          /\ contact_messages' = contact_messages
          /\ contactForm' = contactForm]_vars

\* The outcome of the last handleSubscribe call of p, from what the call did.
SubscribeOutcome(p) ==
  CASE subCall[p].remote = "ok" -> "remote success"
    [] subCall[p].remote = "error" -> "failure"
    [] subCall[p].remote = "throw" /\ subCall[p].local = "throw" -> "failure"
    [] subCall[p].remote = "throw" /\ subCall[p].localWrites = 1 ->
         "local success"
    [] subCall[p].remote = "throw" /\ subCall[p].localWrites = 0 ->
         "duplicate"
    [] subCall[p].remote = "none" /\ subCall[p].toasts > 0 -> "validation"
    [] OTHER -> "none"

\* C11: every subscribe call that finishes has raised exactly one
\* notification (none is raised while the insert is pending), and the
\* notification tells the outcome: each of remote success, local-fallback
\* success, duplicate, validation failure and failure has its own copy.
C11_OneDistinctToast ==
  \A p \in Pages :
    /\ subCall[p].pc = "awaiting" => subCall[p].toasts = 0
    /\ (subCall[p].pc = "idle" /\ subCall[p] # IdleCall)
         => /\ subCall[p].toasts = 1
            /\ SubscribeOutcome(p) # "none"
            /\ toast[p] = ToastSubscribed
                 <=> SubscribeOutcome(p) = "remote success"
            /\ toast[p] = ToastStoredLocally
                 <=> SubscribeOutcome(p) = "local success"
            /\ toast[p] = ToastAlreadySubscribed
                 <=> SubscribeOutcome(p) = "duplicate"
            /\ toast[p] = ToastInvalidEmail
                 <=> SubscribeOutcome(p) = "validation"
            /\ toast[p] = ToastSubscribeFailed
                 <=> SubscribeOutcome(p) = "failure"

C11_Witness ==
  \E p \in Pages :
    /\ subCall[p].pc = "idle"
    /\ subCall[p].remote = "error"
    /\ subCall[p].toasts = 1
    /\ toast[p] = ToastSubscribeFailed
    /\ toast[p] \notin {ToastSubscribed, ToastStoredLocally,
                        ToastAlreadySubscribed, ToastInvalidEmail}

\* C12: the loading flag of a submit handler is true exactly while the
\* handler's remote call is pending; a submission starts only while the flag
\* is false (the control is disabled otherwise), so no control has two
\* submissions in flight; when the handler has finished, on any path, the
\* flag is false again.
C12_LoadingFlag ==
  /\ [](/\ \A p \in Pages : subscribing[p] <=> subCall[p].pc = "awaiting"
        /\ sendingMessage <=> contactCall.pc = "awaiting")
  /\ [][/\ \A p \in Pages :
             /\ (subCall'[p] # subCall[p] /\ subCall'[p].pc = "awaiting")
                  => (~subscribing[p] /\ subCall[p].pc = "idle")
             /\ SubscribeFinished(p) => ~subscribing'[p]
        /\ (contactCall' # contactCall /\ contactCall'.pc = "awaiting")
             => (~sendingMessage /\ contactCall.pc = "idle")
        /\ ContactFinished => ~sendingMessage']_vars

C12_Witness ==
  /\ contactPage = "About"
  /\ contactCall.pc = "awaiting"
  /\ contactCall.remoteInserts = 1
  /\ sendingMessage

\* Steps in which a markAsRead call ends with its update stored, and in which
\* a deleteMessage call ends with its delete done.
MarkSucceeded ==
  markCall.pc = "updating" /\ markCall'.pc = "idle" /\ markCall'.remote = "ok"

DeleteSucceeded ==
  deleteCall.pc = "awaiting" /\ deleteCall'.pc = "idle"
    /\ deleteCall'.remote = "ok"

\* C13: a successful markAsRead(message) sets the status key of the bag of the
\* addressed record to 'read'; every other key of that bag has the value the
\* call read, no key is added or dropped, email, subscribed_at and
\* is_subscribed of the row are unchanged, and no other row changes.
C13_MarkAsReadFrame ==
  [][MarkSucceeded =>
       LET m == markCall.message[1]
           bag == markCall.metadata[1]
       IN /\ Len(member_subscriptions') = Len(member_subscriptions)
          /\ \A i \in DOMAIN member_subscriptions :
               LET old == member_subscriptions[i]
                   new == member_subscriptions'[i]
               IN IF MatchesMessage(old, m)
                  THEN /\ DOMAIN new.metadata = DOMAIN bag \cup {"status"}
                       /\ new.metadata["status"] = StatusRead
                       /\ \A k \in DOMAIN bag \ {"status"} :
                            new.metadata[k] = bag[k]
                       /\ new.email = old.email
                       /\ new.subscribed_at = old.subscribed_at
                       /\ new.is_subscribed = old.is_subscribed
                  ELSE new = old]_vars

\* A markAsRead call has stored its update: one row is read and keeps the
\* note it had, another row was not touched.
C13_Witness ==
  /\ markCall.pc = "idle"
  /\ markCall.remote = "ok"
  /\ \E i, j \in DOMAIN member_subscriptions :
       /\ i # j
       /\ GetKey(member_subscriptions[i].metadata, "status") = StatusRead
       /\ "note" \in DOMAIN member_subscriptions[i].metadata
       /\ "status" \notin DOMAIN member_subscriptions[j].metadata

C15_Original ==
  [][DeleteSucceeded =>
       LET m == deleteCall.message[1]
       IN /\ member_subscriptions' =
               SelectSeq(member_subscriptions,
                         LAMBDA row : ~(/\ IsContactForm(row)
                                        /\ row.email = m.email
                                        /\ row.subscribed_at = m.timestamp))
          /\ messages' =
               SelectSeq(messages,
                         LAMBDA msg : msg.email # m.email
                                        \/ msg.timestamp # m.timestamp)]_vars

\* An entry of the local list is lost: a call told its visitor the address was
\* stored locally, and the list holds no entry for it.
LostEntry ==
  \E p \in Pages :
    /\ subCall[p].pc = "idle"
    /\ toast[p] = ToastStoredLocally
    /\ ~FindSubscription(ParseSubscriptions(newsletter_subscriptions),
                         subCall[p].email)

\* Two calls are in flight at once, for two addresses.
BothAwaiting ==
  /\ \A p \in Pages : subCall[p].pc = "awaiting"
  /\ subCall["tab1"].email # subCall["tab2"].email

MessageFields(msg) ==
  << msg.name, msg.email, msg.subject, msg.message, TimeText(msg.timestamp),
     msg.status >>

SubscriberFields(sub) ==
  << sub.email, IF sub.is_subscribed THEN Subscribed ELSE Unsubscribed,
     TimeText(sub.subscribed_at) >>

SubscriptionFields(sub) ==
  << sub.email, IF sub.is_subscribed THEN Yes ELSE No,
     LocaleDate(sub.subscribed_at) >>

\* fields, each between double quotes and unchanged, separated by commas; and
\* fields as they are, separated by commas.
QuotedRow(fields) ==
  Join([k \in DOMAIN fields |-> <<"\"">> \o fields[k] \o <<"\"">>], <<",">>)

BareRow(fields) == Join(fields, <<",">>)

\* rows, each followed by a newline; and rows with a newline between them.
Terminated(rows) ==
  Join([k \in DOMAIN rows |-> rows[k] \o <<"\n">>], EmptyStr)

Separated(rows) == Join(rows, <<"\n">>)

\* A step in which an export link is clicked.
Exported == exported' # exported

\* C18 as written: every export is the header row and then, per record in
\* list order, the quoted fields separated by commas and a newline.
C18_Original ==
  [][Exported =>
       LET x == exported'[1]
       IN CASE x.download = "contact_messages.csv" ->
                 x.csv = MessagesHeader \o Terminated(
                   [k \in DOMAIN messages |->
                      QuotedRow(MessageFields(messages[k]))])
            [] x.download = "newsletter_subscribers.csv" ->
                 x.csv = SubscribersHeader \o Terminated(
                   [k \in DOMAIN subscribers |->
                      QuotedRow(SubscriberFields(subscribers[k]))])
            [] x.download = "newsletter_subscriptions.csv" ->
                 x.csv = SubscriptionsHeader \o Terminated(
                   [k \in DOMAIN userSubscriptions |->
                      QuotedRow(SubscriptionFields(userSubscriptions[k]))])]_vars

\* C18: every export is the header row with its newline and then one row per
\* record in list order with a newline between rows and none after the last;
\* the Messages and Newsletter exports put every field between double quotes
\* with nothing escaped, the Users export writes the fields bare.
C18_CsvFormat ==
  [][Exported =>
       LET x == exported'[1]
       IN CASE x.download = "contact_messages.csv" ->
                 x.csv = MessagesHeader \o Separated(
                   [k \in DOMAIN messages |->
                      QuotedRow(MessageFields(messages[k]))])
            [] x.download = "newsletter_subscribers.csv" ->
                 x.csv = SubscribersHeader \o Separated(
                   [k \in DOMAIN subscribers |->
                      QuotedRow(SubscriberFields(subscribers[k]))])
            [] x.download = "newsletter_subscriptions.csv" ->
                 x.csv = SubscriptionsHeader \o Separated(
                   [k \in DOMAIN userSubscriptions |->
                      BareRow(SubscriptionFields(userSubscriptions[k]))])]_vars

\* The Messages export of two records, one with a comma in its name and one
\* with a double quote in its message; the document does not end in a newline.
C18_Witness ==
  /\ exported # Null
  /\ exported[1].download = "contact_messages.csv"
  /\ Len(messages) = 2
  /\ \E k \in DOMAIN messages : messages[k].name = <<",">>
  /\ \E k \in DOMAIN messages : messages[k].message = <<"\"">>
  /\ exported[1].csv[Len(exported[1].csv)] # "\n"

\* C19: an export changes neither an in-memory list nor a remote table nor the
\* local list, starts no remote call, and its document is the one computed
\* from the in-memory list of its view, whatever the remote table holds.
C19_ExportFromMemory ==
  [][Exported =>
       /\ UNCHANGED << member_subscriptions, contact_messages,
                       newsletter_subscriptions, messages, subscribers,
                       userSubscriptions, loadCall, deleteCall, markCall,
                       isLoading >>
       /\ LET x == exported'[1]
          IN CASE x.download = "contact_messages.csv" ->
                    x.csv = MessagesCsv(messages)
               [] x.download = "newsletter_subscribers.csv" ->
                    x.csv = SubscribersCsv(subscribers)
               [] x.download = "newsletter_subscriptions.csv" ->
                    x.csv = SubscriptionsCsv(userSubscriptions)]_vars

\* The Messages export was made from a list of one message while the remote
\* table has come to hold two.
C19_Witness ==
  /\ exported # Null
  /\ exported[1].download = "contact_messages.csv"
  /\ exported[1].csv = MessagesCsv(messages)
  /\ Len(messages) = 1
  /\ Cardinality(Selected(member_subscriptions)) = 2

\* What the claim says a decode of the stored value v gives, d being what the
\* decode gave.
DecodedAsClaimed(v, d) ==
  /\ v.kind = "object" => d = v
  /\ \A o \in Structures :
       v.kind = "string" /\ v.text = JsonStringify(o) => d = JsObject(o)
  /\ v.kind = "string" /\ v.text \in BrokenTexts => d = EmptyObject

\* C17: the decode of business_hours and social_links gives the stored
\* structure when the column holds the structure or its JSON text, and gives
\* the empty structure when the column holds a text that is not JSON; a
\* fetch that got the row then holds contact info and raises no notification.
C17_TolerantDecode ==
  /\ [](/\ \A o \in Structures :
            /\ JsonParse(JsonStringify(o)) = Parsed(JsObject(o))
            /\ DecodedAsClaimed(JsObject(o), FooterDecode(JsObject(o)))
            /\ DecodedAsClaimed(JsObject(o), AboutDecode(JsObject(o)))
            /\ DecodedAsClaimed(JsString(JsonStringify(o)),
                                FooterDecode(JsString(JsonStringify(o))))
            /\ DecodedAsClaimed(JsString(JsonStringify(o)),
                                AboutDecode(JsString(JsonStringify(o))))
        /\ \A t \in BrokenTexts :
            /\ ~JsonParse(t).ok
            /\ FooterDecode(JsString(t)) = EmptyObject
            /\ AboutDecode(JsString(t)) = EmptyObject)
  /\ [][/\ footerLoading /\ ~footerLoading' /\ footerContactInfo' # Null =>
            /\ contact_info # Null
            /\ footerToast' = footerToast
            /\ DecodedAsClaimed(contact_info[1].business_hours,
                                footerContactInfo'[1].business_hours)
            /\ DecodedAsClaimed(contact_info[1].social_links,
                                footerContactInfo'[1].social_links)
        /\ loadingContactInfo /\ ~loadingContactInfo' =>
            \/ aboutContactInfo' = AboutDefault
            \/ /\ contact_info # Null
               /\ DecodedAsClaimed(contact_info[1].business_hours,
                                   aboutContactInfo'.business_hours)]_vars

\* Footer and About have fetched a row whose business_hours is the JSON text
\* of a two-day structure and whose social_links is a text that is not JSON.
C17_Witness ==
  /\ contact_info # Null
  /\ contact_info[1].business_hours.kind = "string"
  /\ contact_info[1].business_hours.text
       = JsonStringify([d \in {"mon", "tue"} |-> "9-5"])
  /\ contact_info[1].social_links = JsString(<<"{", "mon", ":">>)
  /\ ~footerLoading
  /\ footerContactInfo # Null
  /\ footerContactInfo[1].business_hours
       = JsObject([d \in {"mon", "tue"} |-> "9-5"])
  /\ footerContactInfo[1].social_links = EmptyObject
  /\ footerToast = NoToast
  /\ ~loadingContactInfo
  /\ aboutContactInfo.business_hours
       = JsObject([d \in {"mon", "tue"} |-> "9-5"])

\* A loadMessages call ends and no error has been notified: its select
\* succeeded.
LoadSucceeded ==
  loadCall = "awaiting" /\ loadCall' = "idle" /\ adminToast' = NoToast

\* C20: when the Messages view has loaded its list, every contact form
\* submission stored before the load began is in the list.
C20_Original ==
  [][LoadSucceeded =>
       \A i \in DOMAIN contact_messages :
         \E k \in DOMAIN messages' :
           /\ messages'[k].email = contact_messages[i].email
           /\ messages'[k].message = contact_messages[i].message]_vars

\* ---------------------------------------------------------------------
\* The flat CRUD views: one manager, other sessions inserting rows.
\* ---------------------------------------------------------------------

NextCrud ==
  \/ \E view \in Views : MountView(view)
  \/ \E i \in CrudIds, r \in RankInputs : CrudInsert(i, r)
  \/ \E ro \in RemoteOutcomes, order \in CrudOrders(crudView, crudTable) :
       FetchResolved(ro, order)
  \/ \E id \in CrudIds : handleDelete(id)
  \/ \E answer \in BOOLEAN : ConfirmAnswered(answer)
  \/ \E id \in CrudIds, ro \in RemoteOutcomes : DeleteResolved(id, ro)

SpecCrud == Init /\ [][NextCrud]_vars

\* Deletes sent, and deletes resolved, by the step.
DeleteIssued == crudDeleting' \ crudDeleting

DeleteEnded == crudDeleting \ crudDeleting'

DeleteReportedOk == crudToast' = CrudSuccess(DeleteSucceededText(crudView))

\* C21: in the flat CRUD views a delete by id is sent only by the step that
\* answers the open confirmation of that id; a list read starts after mounting
\* and otherwise exactly in the step in which a delete resolves successfully
\* (the row of that id is then gone); a declined confirmation and a failed
\* delete start no read and leave the in-memory list and the table unchanged.
C21_DeleteProtocol ==
  [][/\ DeleteIssued # {} =>
          /\ crudPrompt # Null
          /\ DeleteIssued = {crudPrompt[1]}
          /\ crudPrompt' = Null
     /\ (crudView # "none" /\ crudFetches' > crudFetches) =>
          /\ DeleteEnded # {}
          /\ DeleteReportedOk
          /\ \A id \in DeleteEnded, row \in crudTable' : row.id # id
     /\ (DeleteEnded # {} /\ DeleteReportedOk) =>
          crudFetches' = crudFetches + 1
     /\ (crudPrompt # Null /\ crudPrompt' = Null /\ DeleteIssued = {}) =>
          UNCHANGED << crudList, crudFetches, crudTable, crudDeleting >>
     /\ (DeleteEnded # {} /\ ~DeleteReportedOk) =>
          /\ crudToast' = CrudError(DeleteFailedText(crudView))
          /\ UNCHANGED << crudList, crudFetches, crudTable >>
    ]_vars

\* A confirmed delete succeeded and its re-read replaced the list.
C21_Witness ==
  /\ crudView # "none"
  /\ crudToast = CrudSuccess(DeleteSucceededText(crudView))
  /\ crudFetches = 0
  /\ crudDeleting = {}
  /\ crudTable # {}
  /\ ListedIds = { row.id : row \in crudTable }
  /\ Len(crudList) < MaxRows

\* ---------------------------------------------------------------------
\* The ContactManager of one admin session.
\* ---------------------------------------------------------------------

NextManager ==
  \/ MountManager
  \/ \E ro \in RemoteOutcomes : ManagerFetched(ro)
  \/ \E text \in FormTexts : onSubmit(text)
  \/ \E ro \in RemoteOutcomes : SaveResolved(ro)

SpecManager == Init /\ [][NextManager]_vars

\* C22: after any sequence of ContactManager loads and saves the contact_info
\* table holds at most one row.
C22_Original == Len(contact_info) <= 1

\* C25: the contact info the Footer holds after a fetch that returned a row
\* has objects for business_hours and social_links, whatever was stored.
C25_Original ==
  footerContactInfo # Null =>
    /\ footerContactInfo[1].business_hours.kind = "object"
    /\ footerContactInfo[1].social_links.kind = "object"

\* ---------------------------------------------------------------------
\* The Messages view over rows whose stored email is not what the view shows:
\* submit_contact_form stores contact_email as given.
\* ---------------------------------------------------------------------

RawEmails == { <<"<">>, <<"<", "a", "@">>, <<"a", "@">> }

NextRawDelete ==
  \/ \E n \in RpcNames, e \in RawEmails, s \in RpcSubjects, m \in RpcMessages :
       SubmitContactForm(n, e, s, m)
  \/ LoadStart
  \/ \E ro \in RemoteOutcomes, order \in QueryOrders(member_subscriptions) :
       LoadResume(ro, order)
  \/ \E i \in DOMAIN messages : OpenDeleteDialog(i)
  \/ CancelDelete
  \/ DeleteStart
  \/ \E ro \in RemoteOutcomes : DeleteResume(ro)

SpecRawDelete == Init /\ [][NextRawDelete]_vars

\* The rows a load shows as message m.
LoadedAs(tbl, m) ==
  { i \in Selected(tbl) :
      /\ sanitizeInput(tbl[i].email) = m.email
      /\ tbl[i].subscribed_at = m.timestamp }

\* C23: when deleteMessage reports success for a message, no row that a load
\* shows as that message is left in the table, whatever its stored email.
C23_Original ==
  [][(deleteCall.pc = "awaiting" /\ deleteCall'.remote = "ok") =>
       LoadedAs(member_subscriptions', deleteCall.message[1]) = {}]_vars

\* ---------------------------------------------------------------------
\* Database sessions calling subscribe_newsletter.
\* ---------------------------------------------------------------------

NextRpc ==
  \/ Tick
  \/ \E s \in Sessions, e \in RpcEmails : RpcCall(s, e)
  \/ \E s \in Sessions : RpcSelect(s)
  \/ \E s \in Sessions, io \in {"ok", "error"} : RpcFinish(s, io)

SpecRpc == Init /\ [][NextRpc]_vars

\* C26: after any interleaving of subscribe_newsletter calls the table holds
\* at most one row for an email.
C26_Original ==
  \A i, j \in DOMAIN member_subscriptions :
    member_subscriptions[i].email = member_subscriptions[j].email => i = j

\* ---------------------------------------------------------------------
\* The Newsletter view while visitors subscribe on the News page and contact
\* forms are submitted.
\* ---------------------------------------------------------------------

NextList ==
  \/ \E p \in ActivePages, s \in RpcEmails : SetEmail(p, s)
  \/ \E p \in ActivePages : SubscribeStart(p)
  \/ \E p \in ActivePages, ro \in RemoteOutcomes, lo \in LocalOutcomes :
       SubscribeResume(p, ro, lo)
  \/ \E n \in RpcNames, e \in RpcEmails, s \in RpcSubjects, m \in RpcMessages :
       SubmitContactForm(n, e, s, m)
  \/ loadSubscribers
  \/ \E ro \in RemoteOutcomes, order \in SubscriberOrders(member_subscriptions) :
       SubscribersLoaded(ro, order)
  \/ \E i \in DOMAIN subscribers : deleteSubscriber(i)
  \/ \E ro \in RemoteOutcomes : SubscriberRemoved(ro)

SpecList == Init /\ [][NextList]_vars

\* C24: deleteSubscriber leaves the contact-message rows of the table as they
\* are.
C24_Original ==
  [][subsDelete.pc = "awaiting" /\ subsDelete'.pc = "idle" =>
       SelectSeq(member_subscriptions', IsContactForm)
         = SelectSeq(member_subscriptions, IsContactForm)]_vars

\* ---------------------------------------------------------------------
\* The Dashboard in a browser whose News page takes subscriptions.
\* ---------------------------------------------------------------------

NextDash ==
  \/ \E p \in ActivePages, s \in RpcEmails : SetEmail(p, s)
  \/ \E p \in ActivePages : SubscribeStart(p)
  \/ \E p \in ActivePages, ro \in RemoteOutcomes, lo \in LocalOutcomes :
       SubscribeResume(p, ro, lo)
  \/ MountDashboard
  \/ IntervalFired
  \/ \E ro \in RemoteOutcomes : StatsFetched(ro)

SpecDash == Init /\ [][NextDash]_vars

\* C27: once the remote stats fetch has succeeded and the subscribers figure
\* equals the remote count, no step that leaves the remote table as it is
\* replaces the figure with a different value.
C27_Original ==
  [][(/\ statsFetch.pc = "done"
      /\ statsFetch.remote = "ok"
      /\ stats.subscribers = Len(member_subscriptions)
      /\ UNCHANGED member_subscriptions)
       => stats'.subscribers = stats.subscribers]_vars

\* ---------------------------------------------------------------------
\* The News page in a browser that already holds a fallback list.
\* ---------------------------------------------------------------------

\* The item as earlier visits left it: absent, empty, or one entry.
StartLists ==
  { Null, StoredItem(<< >>),
    StoredItem(<< SubscriptionRow(<<"a", "@">>, 0) >>) }

InitLocal ==
  /\ InitContactForm
  /\ contactPage = "News"
  /\ member_subscriptions = << >>
  /\ newsletter_subscriptions \in StartLists
  /\ now = 0
  /\ email = [p \in Pages |-> EmptyStr]
  /\ subscribing = [p \in Pages |-> FALSE]
  /\ subCall = [p \in Pages |-> IdleCall]
  /\ toast = [p \in Pages |-> NoToast]
  /\ InitConsole

NextLocal ==
  \/ \E p \in ActivePages, s \in EmailInputs : SetEmail(p, s)
  \/ \E p \in ActivePages : SubscribeStart(p)
  \/ \E p \in ActivePages, ro \in RemoteOutcomes, lo \in LocalOutcomes :
       SubscribeResume(p, ro, lo)

SpecLocal == InitLocal /\ [][NextLocal]_vars

\* C28: the local list never holds two entries of one email, all its entries
\* are subscribed, and every step keeps the entries it holds, in their order,
\* adding at most one at the end.
C28_LocalListAppendOnly ==
  /\ [](LET list == ParseSubscriptions(newsletter_subscriptions)
        IN /\ \A i, j \in DOMAIN list : list[i].email = list[j].email => i = j
           /\ \A i \in DOMAIN list : list[i].is_subscribed = TRUE)
  /\ [][LET old == ParseSubscriptions(newsletter_subscriptions)
            new == ParseSubscriptions(newsletter_subscriptions')
        IN /\ Len(old) <= Len(new)
           /\ Len(new) <= Len(old) + 1
           /\ \A i \in DOMAIN old : new[i] = old[i]]_vars

\* A list that began with one entry got a second one, of another email, by a
\* fallback, and a later call for the first email added nothing.
C28_Witness ==
  LET list == ParseSubscriptions(newsletter_subscriptions)
  IN /\ Len(list) = 2
     /\ list[1] = SubscriptionRow(<<"a", "@">>, 0)
     /\ list[2].email = <<"b", "@">>
     /\ \E p \in ActivePages :
          /\ subCall[p].pc = "idle"
          /\ subCall[p].email = <<"a", "@">>
          /\ toast[p] = ToastAlreadySubscribed

\* ---------------------------------------------------------------------
\* The admin route: the auth provider, ProtectedRoute and the Dashboard it
\* protects, while contact forms are submitted.
\* ---------------------------------------------------------------------

NextRoute ==
  \/ Tick
  \/ \E user \in {Null} \cup { StoredItem(u) : u \in Users },
        pending \in BOOLEAN : AuthChanged(user, pending)
  \/ \E n \in RpcNames, e \in RpcEmails, s \in RpcSubjects, m \in RpcMessages :
       SubmitContactForm(n, e, s, m)
  \/ routeOutput = "children" /\ MountDashboard
  \/ IntervalFired
  \/ \E ro \in RemoteOutcomes : StatsFetched(ro)

SpecRoute == Init /\ [][NextRoute]_vars

\* C30: ProtectedRoute shows its children only while loading has finished and
\* a user is present (the Dashboard is mounted only then); while loading it
\* shows the spinner, and with loading finished and no user it redirects to
\* /auth.
C30_ProtectedRoute ==
  /\ routeOutput = "children" <=> (~authLoading /\ authUser # Null)
  /\ authLoading <=> routeOutput = "spinner"
  /\ (~authLoading /\ authUser = Null) <=> routeOutput = "redirect:/auth"
  /\ statsFetch.pc # "idle" => (~authLoading /\ authUser # Null)

\* The Dashboard was shown to a user and fetched its stats.
C30_Witness ==
  /\ routeOutput = "children"
  /\ authUser = StoredItem("admin")
  /\ statsFetch.pc = "done"

\* ---------------------------------------------------------------------
\* The Messages view with both of its row handlers, over rows whose stored
\* email the view may show altered or empty.
\* ---------------------------------------------------------------------

\* Stored emails: one the view shows empty, one it shows as stored.
HandlerEmails == { <<"<">>, <<"a", "@">> }

NextHandlers ==
  \/ \E n \in RpcNames, e \in HandlerEmails, s \in RpcSubjects,
        m \in RpcMessages :
       SubmitContactForm(n, e, s, m)
  \/ LoadStart
  \/ \E ro \in RemoteOutcomes, order \in QueryOrders(member_subscriptions) :
       LoadResume(ro, order)
  \/ \E i \in DOMAIN messages : OpenDeleteDialog(i)
  \/ CancelDelete
  \/ DeleteStart
  \/ \E ro \in RemoteOutcomes : DeleteResume(ro)
  \/ \E i \in DOMAIN messages : MarkStart(i)
  \/ \E ro \in RemoteOutcomes : MarkFetched(ro)
  \/ \E ro \in RemoteOutcomes : MarkUpdated(ro)

SpecHandlers == Init /\ [][NextHandlers]_vars

\* Steps in which a call of a handler ends after an await.
DeleteEnds == deleteCall.pc = "awaiting" /\ deleteCall'.pc = "idle"

MarkEnds == markCall.pc \in {"fetching", "updating"} /\ markCall'.pc = "idle"

LoadEnds == loadCall = "awaiting" /\ loadCall' = "idle"

InvalidRaised ==
  /\ adminToast' = AdminError("Invalid message data")
  /\ adminToast' # adminToast

\* C29: apart from a load, only a delete or a mark-as-read whose remote
\* operation succeeded changes the in-memory list; a call that ends on invalid
\* message data, a failed fetch, a failed update or a failed delete leaves the
\* list and the table as they are and raises an error notification; every
\* call ends with isLoading false, and a deleteMessage call with no message
\* selected for deletion.
C29_ListChangesOnSuccess ==
  [][/\ messages' # messages =>
          \/ LoadEnds
          \/ DeleteEnds /\ deleteCall'.remote = "ok"
          \/ MarkEnds /\ markCall.pc = "updating" /\ markCall'.remote = "ok"
     /\ (DeleteEnds /\ deleteCall'.remote # "ok") =>
          /\ messages' = messages
          /\ member_subscriptions' = member_subscriptions
          /\ adminToast'.title = "Error"
     /\ (MarkEnds /\ markCall'.remote # "ok") =>
          /\ messages' = messages
          /\ member_subscriptions' = member_subscriptions
          /\ adminToast'.title = "Error"
     /\ InvalidRaised =>
          /\ messages' = messages
          /\ member_subscriptions' = member_subscriptions
          /\ UNCHANGED << deleteCall, markCall >>
          /\ ~isLoading'
          /\ messageToDelete' = Null
     /\ DeleteEnds => ~isLoading' /\ messageToDelete' = Null
     /\ MarkEnds => ~isLoading'
    ]_vars

\* A mark-as-read failed at its update and a delete was refused for invalid
\* message data: the list still shows the unread message.
C29_Witness ==
  /\ markCall.pc = "idle"
  /\ markCall.remote = "error"
  /\ deleteCall.pc = "idle"
  /\ adminToast = AdminError("Invalid message data")
  /\ ~isLoading
  /\ messageToDelete = Null
  /\ \E k \in DOMAIN messages : messages[k].status = StatusPending
  /\ \E k \in DOMAIN messages : ~ValidMessage(messages[k])

====
